---- MODULE Spec2Model ----
(***************************************************************************)
(* Fused multi-head attention forward kernel                               *)
(* (paddle/phi/kernels/fusion/cutlass/fused_multi_head_attention/          *)
(*  kernel_forward.h): Params::advance_to_block, getBlocksGrid,            *)
(* check_supported, attention_kernel and iterative_softmax.                *)
(*                                                                         *)
(* Numbers.  accum_t values are exact extended rationals <<n, d>>:         *)
(*   d > 0   the finite value n/d in lowest terms,                         *)
(*   <<1,0>> +infinity, <<-1,0>> -infinity, <<0,0>> not-a-number,          *)
(*   <<0,-1>> the negative zero of IEEE arithmetic.                        *)
(* The logits of the model are integers and exp2f(kLog2e * x) is the map   *)
(* x |-> ExpBase^x, so every product and sum the kernel forms is exact.    *)
(*                                                                         *)
(* Scale.  The warp tile edge (32 in the source: kWarpSize, the 32x32      *)
(* WarpShape, kAlignLSE) is 2 in the model, so that whole tiles can be     *)
(* enumerated; every quantity the source derives from it (tile sizes,      *)
(* kNumWarpsPerBlock, kNumThreads, kLinesPerWarp, lse_dim) is derived from *)
(* it here by the source's formula.                                        *)
(***************************************************************************)
EXTENDS Integers, Sequences, FiniteSets, TLC

(***************************************************************************)
(* Extended rational arithmetic (accum_t = float, exact)                   *)
(***************************************************************************)
NaN == <<0, 0>>
PInf == <<1, 0>>
NInf == <<-1, 0>>
Zero == <<0, 1>>
NegZero == <<0, -1>>
One == <<1, 1>>

Abs(n) == IF n < 0 THEN -n ELSE n

RECURSIVE GCD(_, _)
GCD(a, b) == IF b = 0 THEN a ELSE GCD(b, a % b)

\* n/d in lowest terms, d > 0
Rat(n, d) == LET g == GCD(Abs(n), d) IN <<n \div g, d \div g>>

Val(n) == <<n, 1>>

IsNaN(x) == x = NaN
IsInf(x) == x = PInf \/ x = NInf
IsFinite(x) == x[2] > 0 \/ x = NegZero
IsZero(x) == x = Zero \/ x = NegZero
Num(x) == x[1]
Den(x) == IF x = NegZero THEN 1 ELSE x[2]
\* the sign bit of the float (the canonical NaN has it clear)
SignBit(x) == x[1] < 0 \/ x = NegZero

Negate(x) ==
  IF IsNaN(x) THEN NaN
  ELSE IF x = Zero THEN NegZero
  ELSE IF x = NegZero THEN Zero
  ELSE <<-x[1], x[2]>>

Add(a, b) ==
  IF IsNaN(a) \/ IsNaN(b) THEN NaN
  ELSE IF IsInf(a) THEN (IF IsInf(b) /\ a # b THEN NaN ELSE a)
  ELSE IF IsInf(b) THEN b
  ELSE IF a = NegZero /\ b = NegZero THEN NegZero
  ELSE Rat(Num(a) * Den(b) + Num(b) * Den(a), Den(a) * Den(b))

Sub(a, b) == Add(a, Negate(b))

Mul(a, b) ==
  IF IsNaN(a) \/ IsNaN(b) THEN NaN
  ELSE IF (IsInf(a) /\ IsZero(b)) \/ (IsZero(a) /\ IsInf(b)) THEN NaN
  ELSE IF IsInf(a) \/ IsInf(b)
    THEN (IF SignBit(a) = SignBit(b) THEN PInf ELSE NInf)
  ELSE IF IsZero(a) \/ IsZero(b)
    THEN (IF SignBit(a) = SignBit(b) THEN Zero ELSE NegZero)
  ELSE Rat(Num(a) * Num(b), Den(a) * Den(b))

\* 1 / x
Recip(x) ==
  IF IsNaN(x) THEN NaN
  ELSE IF x = PInf THEN Zero
  ELSE IF x = NInf THEN NegZero
  ELSE IF x = Zero THEN PInf
  ELSE IF x = NegZero THEN NInf
  ELSE IF x[1] < 0 THEN <<-x[2], -x[1]>> ELSE <<x[2], x[1]>>

\* a < b on floats (false when either is NaN)
Less(a, b) ==
  IF IsNaN(a) \/ IsNaN(b) THEN FALSE
  ELSE IF a = PInf \/ b = NInf THEN FALSE
  ELSE IF a = NInf \/ b = PInf THEN TRUE
  ELSE Num(a) * Den(b) < Num(b) * Den(a)

\* cutlass::fast_max on float (fmaxf: a NaN operand is dropped)
FastMax(a, b) ==
  IF IsNaN(a) THEN b
  ELSE IF IsNaN(b) THEN a
  ELSE IF Less(a, b) THEN b ELSE a

ExpBase == 2

RECURSIVE Pow(_, _)
Pow(b, k) == IF k = 0 THEN 1 ELSE b * Pow(b, k - 1)

\* exp2f(kLog2e * x) on an integer-valued x
Exp(x) ==
  IF IsNaN(x) THEN NaN
  ELSE IF x = PInf THEN PInf
  ELSE IF x = NInf THEN Zero
  ELSE IF IsZero(x) THEN One
  ELSE LET k == x[1] \div x[2]
       IN IF k >= 0 THEN <<Pow(ExpBase, k), 1>> ELSE <<1, Pow(ExpBase, -k)>>

\* mi + cutlass::fast_log(s), kept symbolically as <<m, s>> when both parts
\* are finite and s > 0 (m + log s), and evaluated when a part is special
LogSum(m, s) ==
  LET lg == IF IsNaN(s) \/ s[1] < 0 THEN NaN
            ELSE IF IsZero(s) THEN NInf
            ELSE IF s = PInf THEN PInf
            ELSE Zero
  IN IF IsFinite(m) /\ IsFinite(s) /\ Less(Zero, s)
       THEN <<m, s>>
       ELSE <<Add(m, lg), One>>

\* magnitude order of float bit patterns: finite < infinity < NaN
MagLess(a, b) ==
  IF IsNaN(a) THEN FALSE
  ELSE IF IsNaN(b) THEN TRUE
  ELSE IF IsInf(a) THEN FALSE
  ELSE IF IsInf(b) THEN TRUE
  ELSE Abs(Num(a)) * Den(b) < Abs(Num(b)) * Den(a)

\* order of __float_as_int(a), __float_as_int(b) as signed integers
IntLess(a, b) ==
  IF SignBit(a) # SignBit(b) THEN SignBit(a) ELSE MagLess(a, b)

\* order of __float_as_uint(a), __float_as_uint(b) as unsigned integers
UIntLess(a, b) ==
  IF SignBit(a) # SignBit(b) THEN ~SignBit(a) ELSE MagLess(a, b)

\* the value left in *addr by atomicMaxFloat(addr, value)
atomicMaxFloat(old, value) ==
  IF ~IsNaN(value) /\ ~Less(value, Zero)
    THEN (IF IntLess(old, value) THEN value ELSE old)
    ELSE (IF UIntLess(value, old) THEN value ELSE old)


\* the sum of a sequence of values, left to right, from start
RECURSIVE SumFrom(_, _, _)
SumFrom(start, s, i) ==
  IF i > Len(s) THEN start ELSE SumFrom(Add(start, s[i]), s, i + 1)

Min(a, b) == IF a < b THEN a ELSE b
Max(a, b) == IF a < b THEN b ELSE a

\* gemm_kernel_utils ceil_div on the non-negative operands the kernel gives it
ceil_div(n, m) == (n + m - 1) \div m

nullptr == 0 - 1

(***************************************************************************)
(* Compile-time parameters of AttentionKernel (record c)                   *)
(*   kQueriesPerBlock, kKeysPerBlock, kSingleValueIteration, kAddMask,     *)
(*   kMaskBroadcastRow, isAligned, maskIsAligned                           *)
(***************************************************************************)
kWarpSize == 2
kAlignLSE == 2

\* the static assertions of the struct on the tile sizes
StaticAssertsHold(kQ, kK) ==
  /\ kQ % kWarpSize = 0
  /\ kK % kWarpSize = 0
  /\ kQ > 0 /\ kK > 0
  /\ kQ < ((kQ * kK) \div (kWarpSize * kWarpSize)) * kWarpSize

kNumWarpsPerBlock(c) ==
  (c.kQueriesPerBlock * c.kKeysPerBlock) \div (kWarpSize * kWarpSize)
kNumThreads(c) == kWarpSize * kNumWarpsPerBlock(c)
kKeepOutputInRF(c) == c.kSingleValueIteration
\* MmaCore::WarpCount of the kQueriesPerBlock x kKeysPerBlock threadblock
\* tile cut into kWarpSize x kWarpSize warp tiles
WarpCountM(c) == c.kQueriesPerBlock \div kWarpSize
WarpCountN(c) == c.kKeysPerBlock \div kWarpSize
kLinesPerWarp(c) == c.kQueriesPerBlock \div kNumWarpsPerBlock(c)

\* elements per aligned access of the aligned kernels
\* (DefaultConfig::kAlignmentA / kAlignmentB)
AlignedAccess == 2
kAlignmentQ(c) == IF c.isAligned THEN AlignedAccess ELSE 1
kAlignmentK(c) == IF c.isAligned THEN AlignedAccess ELSE 1
kAlignmentV(c) == 1
kAlignmentM(c) == IF c.maskIsAligned THEN kAlignmentQ(c) ELSE 1

Rows(c) == 0 .. c.kQueriesPerBlock - 1
Cols(c) == 0 .. c.kKeysPerBlock - 1
ThreadIds(c) == 0 .. kNumThreads(c) - 1

(***************************************************************************)
(* Params                                                                  *)
(***************************************************************************)
\* getBlocksGrid with the query tiles counted by a truncating division
getBlocksGrid_floor(c, p) ==
  (0 .. (p.num_queries \div c.kQueriesPerBlock) - 1)
    \X (0 .. p.num_heads - 1) \X (0 .. p.num_batches - 1)

\* grid of Params::getBlocksGrid: the block indices <<x, y, z>>
getBlocksGrid(c, p) ==
  (0 .. ceil_div(p.num_queries, c.kQueriesPerBlock) - 1)
    \X (0 .. p.num_heads - 1) \X (0 .. p.num_batches - 1)

o_strideM(p) == p.head_dim_value

\* SeqStart reading the table where the caller left the pointer (without
\* cu_seqlens_x_ptr += batch_id)
SeqStart_unadvanced(varlen, cu, ptr) == IF varlen THEN cu[0] ELSE 0

\* q_start / k_start: the first packed row of the batch, read at the advanced
\* table pointer ptr (cu_seqlens_x_ptr += batch_id; x_start =
\* cu_seqlens_x_ptr[0]), and 0 on the fixed-stride path
SeqStart(varlen, cu, ptr) == IF varlen THEN cu[ptr] ELSE 0

\* the row count of the batch: cu_seqlens_x_ptr[1] - x_start, or the count
\* the caller passed on the fixed-stride path
SeqCount(varlen, cu, ptr, count) ==
  IF varlen THEN cu[ptr + 1] - cu[ptr] ELSE count

\* NoWork with the comparison off by one
NoWork_strict(varlen, query_start, num_queries) ==
  varlen /\ query_start > num_queries

\* if (query_start >= num_queries) return false, under cu_seqlens_q_ptr
NoWork(varlen, query_start, num_queries) ==
  varlen /\ query_start >= num_queries

\* Params::advance_to_block for block <<x, y, z>>; cu_q and cu_k are the
\* cumulative-offset tables.  Gives the return value and the advanced Params.
advance_to_block(c, p, cu_q, cu_k, blockIdx) ==
  LET batch_id == blockIdx[3]
      head_id == blockIdx[2]
      query_start == blockIdx[1] * c.kQueriesPerBlock
      lse_dim == ceil_div(p.num_queries, kAlignLSE) * kAlignLSE
      varlen == p.cu_seqlens_q_ptr # nullptr
      cuq == p.cu_seqlens_q_ptr + batch_id
      cuk == p.cu_seqlens_k_ptr + batch_id
      q_start == SeqStart(varlen, cu_q, cuq)
      k_start == SeqStart(varlen, cu_k, cuk)
      nq == SeqCount(varlen, cu_q, cuq, p.num_queries)
      nk == SeqCount(varlen, cu_k, cuk, p.num_keys)
      qb == IF varlen THEN 0 ELSE batch_id * p.q_strideB
      kb == IF varlen THEN 0 ELSE batch_id * p.k_strideB
      vb == IF varlen THEN 0 ELSE batch_id * p.v_strideB
      ob == IF varlen THEN 0 ELSE batch_id * p.o_strideB
      orow == (q_start + query_start) * o_strideM(p) + head_id * p.o_strideH
      moved ==
        [p EXCEPT
          !.cu_seqlens_q_ptr = IF varlen THEN cuq ELSE nullptr,
          !.cu_seqlens_k_ptr = IF varlen THEN cuk ELSE nullptr,
          !.query_ptr = p.query_ptr + qb
                          + (q_start + query_start) * p.q_strideM
                          + head_id * p.q_strideH,
          !.key_ptr = p.key_ptr + kb + k_start * p.k_strideM
                          + head_id * p.k_strideH,
          !.value_ptr = p.value_ptr + vb + k_start * p.v_strideM
                          + head_id * p.v_strideH,
          !.output_ptr = p.output_ptr + ob + orow,
          !.mask_ptr = IF p.mask_ptr # nullptr
                         THEN p.mask_ptr + batch_id * p.mask_strideB
                                + head_id * p.mask_strideH
                         ELSE nullptr,
          !.output_accum_ptr =
             IF p.output_accum_ptr # nullptr
               THEN p.output_accum_ptr + ob + orow
               ELSE p.output_ptr + ob + orow,
          !.accum_in_output = (p.output_accum_ptr = nullptr),
          !.logsumexp_ptr =
             IF p.logsumexp_ptr # nullptr
               THEN p.logsumexp_ptr + batch_id * lse_dim * p.num_heads
                      + head_id * lse_dim + query_start
               ELSE nullptr,
          !.num_queries = nq - query_start,
          !.num_keys = IF p.causal
                         THEN Min(query_start + c.kQueriesPerBlock, nk)
                         ELSE nk,
          !.num_batches = 0]
  IN IF NoWork(varlen, query_start, nq)
       THEN [ok |-> FALSE,
             p |-> [p EXCEPT !.cu_seqlens_q_ptr = cuq, !.cu_seqlens_k_ptr = cuk,
                             !.num_queries = nq, !.num_keys = nk]]
       ELSE [ok |-> TRUE, p |-> moved]

\* CHECK_ALIGNED_PTR / XFORMERS_CHECK condition
Aligned(x, alignment) == x % alignment = 0

\* AttentionKernel::check_supported: TRUE when no check reports an error
check_supported(c, p) ==
  /\ Aligned(p.query_ptr, kAlignmentQ(c))
  /\ Aligned(p.key_ptr, kAlignmentK(c))
  /\ Aligned(p.value_ptr, kAlignmentV(c))
  /\ (p.mask_ptr # nullptr =>
        /\ Aligned(p.mask_ptr, kAlignmentM(c))
        /\ Aligned(p.mask_strideB, kAlignmentM(c))
        /\ Aligned(p.mask_strideH, kAlignmentM(c))
        /\ Aligned(p.mask_strideM, kAlignmentM(c)))
  /\ Aligned(p.q_strideM, kAlignmentQ(c))
  /\ Aligned(p.k_strideM, kAlignmentK(c))
  /\ Aligned(p.v_strideM, kAlignmentV(c))
  /\ Aligned(p.q_strideH, kAlignmentQ(c))
  /\ Aligned(p.k_strideH, kAlignmentK(c))
  /\ Aligned(p.v_strideH, kAlignmentV(c))


(***************************************************************************)
(* attention_kernel: one key-tile of scores                                *)
(***************************************************************************)
\* content of shared memory and of global memory nobody has written
Uninit == <<0, -2>>

problem_size_0_m(c, p) == Min(c.kQueriesPerBlock, p.num_queries)
problem_size_0_n(c, p, iter_key_start) ==
  Min(c.kKeysPerBlock, p.num_keys - iter_key_start)

\* element d of row m of the query tile (MM0::IteratorA, zero outside the
\* extent {problem_size_0_m, head_dim})
QueryAt(c, p, query, m, d) ==
  IF m < problem_size_0_m(c, p) /\ d < p.head_dim
    THEN query[p.query_ptr + m * p.q_strideM + d]
    ELSE Zero

\* element d of column n of the key tile (MM0::IteratorB, zero outside the
\* extent {head_dim, problem_size_0_n})
KeyAt(c, p, key, iter_key_start, n, d) ==
  IF n < problem_size_0_n(c, p, iter_key_start) /\ d < p.head_dim
    THEN key[p.key_ptr + (iter_key_start + n) * p.k_strideM + d]
    ELSE Zero

\* the query addresses iterator_A reads: extent {problem_size_0_m, head_dim}
\* at query_ptr
QueryReads(c, p) ==
  {p.query_ptr + m * p.q_strideM + d :
     m \in 0 .. problem_size_0_m(c, p) - 1, d \in 0 .. p.head_dim - 1}

\* accum after mma(gemm_k_iterations, accum, iterator_A, iterator_B, accum)
MatmulQK(c, p, query, key, iter_key_start) ==
  [t \in Rows(c) \X Cols(c) |->
     SumFrom(Zero,
             [d \in 1 .. p.head_dim |->
                Mul(QueryAt(c, p, query, t[1], d - 1),
                    KeyAt(c, p, key, iter_key_start, t[2], d - 1))],
             1)]

\* if (kAddMask) accum = p.scale * accum
ScaleScores(c, p, accum) ==
  IF c.kAddMask
    THEN [t \in DOMAIN accum |-> Mul(p.scale, accum[t])]
    ELSE accum

\* the mask tile staged in shared memory: rows below mask_iter_m, columns
\* below problem_size_0_n, read at
\* mask_ptr + query_start * mask_strideM + iter_key_start
MaskTileAt(c, p, mask, query_start, iter_key_start, r, n) ==
  mask[p.mask_ptr + query_start * p.mask_strideM + iter_key_start
         + r * p.mask_strideM + n]

\* AddMask bounding the rows by mask_iter_m (the rows loaded) instead of
\* problem_size_0_m
AddMask_loadedrows(c, p, mask, query_start, iter_key_start, accum) ==
  IF c.kAddMask
    THEN [t \in DOMAIN accum |->
            IF t[1] < (IF c.kMaskBroadcastRow THEN 1
                       ELSE problem_size_0_m(c, p))
               /\ t[2] < problem_size_0_n(c, p, iter_key_start)
              THEN Add(accum[t],
                       MaskTileAt(c, p, mask, query_start, iter_key_start,
                                  IF c.kMaskBroadcastRow THEN 0 ELSE t[1],
                                  t[2]))
              ELSE accum[t]]
    ELSE accum

\* Pij += Bij
AddMask(c, p, mask, query_start, iter_key_start, accum) ==
  IF c.kAddMask
    THEN [t \in DOMAIN accum |->
            IF t[1] < problem_size_0_m(c, p)
               /\ t[2] < problem_size_0_n(c, p, iter_key_start)
              THEN Add(accum[t],
                       MaskTileAt(c, p, mask, query_start, iter_key_start,
                                  IF c.kMaskBroadcastRow THEN 0 ELSE t[1],
                                  t[2]))
              ELSE accum[t]]
    ELSE accum

\* Mask out last if causal
CausalMask(c, p, query_start, iter_key_start, accum) ==
  IF p.causal /\ p.num_keys - iter_key_start <= c.kKeysPerBlock
    THEN [t \in DOMAIN accum |->
            LET last_col == query_start + t[1] - iter_key_start
            IN IF t[2] > last_col THEN NInf ELSE accum[t]]
    ELSE accum

\* ScoreTile with the mask added before the scaling
ScoreTile_maskfirst(c, p, query, key, mask, query_start, iter_key_start) ==
  CausalMask(c, p, query_start, iter_key_start,
    ScaleScores(c, p,
      AddMask(c, p, mask, query_start, iter_key_start,
        MatmulQK(c, p, query, key, iter_key_start))))

\* the score tile handed to iterative_softmax
ScoreTile(c, p, query, key, mask, query_start, iter_key_start) ==
  CausalMask(c, p, query_start, iter_key_start,
    AddMask(c, p, mask, query_start, iter_key_start,
      ScaleScores(c, p, MatmulQK(c, p, query, key, iter_key_start))))

(***************************************************************************)
(* iterative_softmax, as executed by all threads of the block              *)
(***************************************************************************)
\* the columns of warp column wn (tile_offset.column() = wn)
WarpCols(c, wn) == wn * kWarpSize .. wn * kWarpSize + kWarpSize - 1

InRange(kFullColumns, n, max_col) == kFullColumns \/ n < max_col

\* max of the lanes of warp column wn over row m (first lambda pass)
RECURSIVE RowMaxFrom(_, _, _, _, _, _)
RowMaxFrom(max, frag, m, n, last, inrange) ==
  IF n > last THEN max
  ELSE RowMaxFrom(IF inrange[n] THEN FastMax(max, frag[<<m, n>>]) ELSE max,
                  frag, m, n + 1, last, inrange)

\* mi[m] after the atomicMaxFloat of every warp column, warp column 0 first
RECURSIVE AtomicRowMax(_, _, _, _, _, _, _)
AtomicRowMax(c, cur, frag, m, wn, inrange, scaling) ==
  IF wn >= WarpCountN(c) THEN cur
  ELSE AtomicRowMax(c,
         atomicMaxFloat(cur,
           Mul(RowMaxFrom(NInf, frag, m, wn * kWarpSize,
                          wn * kWarpSize + kWarpSize - 1, inrange),
               scaling)),
         frag, m, wn + 1, inrange, scaling)

\* the rows whose s_prime is accumulated: warp_id * kLinesPerWarp + lane_id
\* for lane_id < kLinesPerWarp
AccumulatedRows(c) ==
  {w * kLinesPerWarp(c) + l :
     w \in 0 .. kNumWarpsPerBlock(c) - 1,
     l \in {x \in 0 .. kWarpSize - 1 : x < kLinesPerWarp(c)}}

\* the rows a thread with thread_id < kQueriesPerBlock updates
ThreadRows(c) == {t \in ThreadIds(c) : t < c.kQueriesPerBlock}

\* frag = cutlass::multiplies<Fragment>()(scaling * kLog2e, frag), in units
\* of the natural logarithm
ScaledFrag(frag, scaling) == [t \in DOMAIN frag |-> Mul(scaling, frag[t])]

iterative_softmax(c, kFullColumns, kIsFirst, frag_o, frag, mi, m_prime, s_prime, max_col, scaling) ==
  LET inrange == [n \in Cols(c) |-> InRange(kFullColumns, n, max_col)]
      m_prime1 == IF ~kIsFirst
                    THEN [r \in Rows(c) |->
                            IF r \in ThreadRows(c) THEN mi[r] ELSE m_prime[r]]
                    ELSE m_prime
      mi1 == [r \in Rows(c) |->
                AtomicRowMax(c, mi[r], frag, r, 0, inrange, scaling)]
      frag1 == ScaledFrag(frag, scaling)
      m_prime_exp == [r \in Rows(c) |-> Exp(Sub(m_prime1[r], mi1[r]))]
      m_prime2 == [r \in Rows(c) |->
                     IF r \in ThreadRows(c) THEN m_prime_exp[r]
                     ELSE m_prime1[r]]
      s_prime1 == [r \in Rows(c) |->
                     IF r \in ThreadRows(c)
                       THEN Mul(s_prime[r], m_prime_exp[r])
                       ELSE s_prime[r]]
      frag_o1 == IF kKeepOutputInRF(c) /\ ~kIsFirst
                   THEN [t \in DOMAIN frag_o |->
                           Mul(frag_o[t], m_prime2[t[1]])]
                   ELSE frag_o
      frag2 == [t \in DOMAIN frag |->
                  IF inrange[t[2]] THEN Exp(Sub(frag1[t], mi1[t[1]]))
                  ELSE Zero]
      addition_storage ==
        [i \in 0 .. c.kQueriesPerBlock * WarpCountN(c) - 1 |->
           LET m == i % c.kQueriesPerBlock
               wn == i \div c.kQueriesPerBlock
           IN SumFrom(Zero,
                      [k \in 1 .. kWarpSize |->
                         frag2[<<m, wn * kWarpSize + k - 1>>]],
                      1)]
      s_prime2 == [r \in Rows(c) |->
                     IF r \in AccumulatedRows(c)
                       THEN SumFrom(s_prime1[r],
                              [i \in 1 .. WarpCountN(c) |->
                                 addition_storage[
                                   r + c.kQueriesPerBlock * (i - 1)]],
                              1)
                       ELSE s_prime1[r]]
  IN [frag_o |-> frag_o1, frag |-> frag2, mi |-> mi1,
      m_prime |-> m_prime2, s_prime |-> s_prime2]


(***************************************************************************)
(* attention_kernel: attn @ V, epilogues, log-sum-exp                      *)
(***************************************************************************)
\* element of the value tile (MM1::IteratorB, zero outside the extent
\* {problem_size_1_k, problem_size_1_n})
ValueAt(c, p, value, iter_key_start, n, col) ==
  IF n < problem_size_0_n(c, p, iter_key_start) /\ col < p.head_dim_value
    THEN value[p.value_ptr + (iter_key_start + n) * p.v_strideM + col]
    ELSE Zero

nBlockN(c, p) ==
  IF c.kSingleValueIteration THEN 1
  ELSE ceil_div(p.head_dim_value, c.kKeysPerBlock)

\* accum_o after mma_pv(gemm_k_iterations, accum_o, iterator_V, accum_o) for
\* value sub-tile blockN; si is the exponentiated score tile
MatmulPV(c, p, value, iter_key_start, si, accum_o, blockN) ==
  [t \in Rows(c) \X Cols(c) |->
     SumFrom(accum_o[t],
             [k \in 1 .. Max(0, problem_size_0_n(c, p, iter_key_start)) |->
                Mul(si[<<t[1], k - 1>>],
                    ValueAt(c, p, value, iter_key_start, k - 1,
                            blockN * c.kKeysPerBlock + t[2]))],
             1)]

ClearedAccum(c) == [t \in Rows(c) \X Cols(c) |-> Zero]

\* OutputTile without the row extent: every row of the tile
OutputTile_allrows(c, p, col) ==
  {t \in Rows(c) \X Cols(c) : col + t[2] < p.head_dim_value}

\* the elements <<row, column>> of the output tile at column offset col that
\* an output iterator of extent {num_queries, head_dim_value} writes
OutputTile(c, p, col) ==
  {t \in Rows(c) \X Cols(c) :
     t[1] < p.num_queries /\ col + t[2] < p.head_dim_value}

OutputOffset(p, t, col) == t[1] * o_strideM(p) + col + t[2]

\* MemoryEfficientAttentionNormalize: the value written for one element
Normalize(kIsFirst, kIsLast, s_prime_row, m_prime_row, accumulator, source) ==
  LET alpha == IF kIsLast THEN Recip(s_prime_row) ELSE One
      beta == Mul(alpha, m_prime_row)
  IN IF kIsFirst
       THEN Mul(alpha, accumulator)
       ELSE Add(Mul(alpha, accumulator), Mul(beta, source))

\* buf with the writes w (a set of <<address, value>>) applied
Store(buf, w) ==
  [a \in DOMAIN buf |->
     IF \E x \in w : x[1] = a
       THEN (CHOOSE x \in w : x[1] = a)[2]
       ELSE buf[a]]

\* the epilogue inside the key-tile loop (!kKeepOutputInRF) for one value
\* sub-tile; g is [output, output_accum], the result is g after the write
EpilogueInLoop(c, p, g, kIsFirst, kIsLast, s_prime, m_prime, accum_o, blockN) ==
  LET col == blockN * c.kKeysPerBlock
      src == IF p.accum_in_output THEN g.output ELSE g.output_accum
      w(base) ==
        {<<base + OutputOffset(p, t, col),
           Normalize(kIsFirst, kIsLast, s_prime[t[1]], m_prime[t[1]],
                     accum_o[t],
                     IF kIsFirst THEN Zero
                     ELSE src[p.output_accum_ptr + OutputOffset(p, t, col)])>> :
         t \in OutputTile(c, p, col)}
  IN IF kIsLast \/ p.accum_in_output
       THEN [g EXCEPT !.output =
               Store(g.output,
                     w(IF kIsLast THEN p.output_ptr ELSE p.output_accum_ptr))]
       ELSE [g EXCEPT !.output_accum = Store(g.output_accum, w(p.output_accum_ptr))]

\* the value sub-tile loop of one key-tile: [accum_o, g] after it
RECURSIVE ValueLoop(_, _, _, _, _, _, _, _, _, _)
ValueLoop(c, p, value, iter_key_start, si, s_prime, m_prime, accum_o, g, blockN) ==
  IF blockN >= nBlockN(c, p) THEN [accum_o |-> accum_o, g |-> g]
  ELSE LET acc == MatmulPV(c, p, value, iter_key_start, si,
                           IF kKeepOutputInRF(c) THEN accum_o
                           ELSE ClearedAccum(c),
                           blockN)
           g1 == IF kKeepOutputInRF(c) THEN g
                 ELSE EpilogueInLoop(c, p, g, iter_key_start = 0,
                        iter_key_start + c.kKeysPerBlock >= p.num_keys,
                        s_prime, m_prime, acc, blockN)
       IN ValueLoop(c, p, value, iter_key_start, si, s_prime, m_prime,
                    acc, g1, blockN + 1)

\* the epilogue after the key-tile loop (kKeepOutputInRF)
EpilogueAtEnd(c, p, g, s_prime, m_prime, accum_o) ==
  [g EXCEPT !.output =
     Store(g.output,
           {<<p.output_ptr + OutputOffset(p, t, 0),
              Normalize(TRUE, TRUE, s_prime[t[1]], m_prime[t[1]],
                        accum_o[t], Zero)>> :
            t \in OutputTile(c, p, 0)})]

\* LseWrites adding s_prime itself, not its logarithm
LseWrites_nolog(c, p, mi, s_prime) ==
  IF p.logsumexp_ptr = nullptr THEN {}
  ELSE LET lse_dim == ceil_div(p.num_queries, kAlignLSE) * kAlignLSE
       IN {<<p.logsumexp_ptr + t,
             IF t < p.num_queries THEN <<Add(mi[t], s_prime[t]), One>>
             ELSE <<PInf, One>>>> :
           t \in {x \in ThreadRows(c) : x < p.num_queries \/ x < lse_dim}}

\* LseWrites without the else branch that pads with infinity
LseWrites_nopad(c, p, mi, s_prime) ==
  IF p.logsumexp_ptr = nullptr THEN {}
  ELSE {<<p.logsumexp_ptr + t, LogSum(mi[t], s_prime[t])>> :
        t \in {x \in ThreadRows(c) : x < p.num_queries}}

\* 7. Calculate logsumexp: the writes <<slot, value>> of the block
LseWrites(c, p, mi, s_prime) ==
  IF p.logsumexp_ptr = nullptr THEN {}
  ELSE LET lse_dim == ceil_div(p.num_queries, kAlignLSE) * kAlignLSE
       IN {<<p.logsumexp_ptr + t,
             IF t < p.num_queries THEN LogSum(mi[t], s_prime[t])
             ELSE <<PInf, One>>>> :
           t \in {x \in ThreadRows(c) : x < p.num_queries \/ x < lse_dim}}


(***************************************************************************)
(* The kernel as a state machine                                           *)
(***************************************************************************)
VARIABLES
  cfg,    \* the template parameters the kernel was instantiated with
  host,   \* the Params the caller filled in
  hpc,    \* the caller: "check", "ready", "rejected", "launched"
  inp,    \* global memory read by the kernel: query, key, value, mask and
          \* the cumulative-offset tables cu_q, cu_k
  g,      \* global memory written by the kernel: output, output_accum,
          \* logsumexp
  unit,   \* the blocks of the grid: blockIdx |-> registers and shared memory
  tb,     \* one block seen thread by thread: its Params, its shared memory
          \* and the accumulators of its threads
  warp,   \* the warps of that block: warp_id |-> position in the kernel
  accesses \* the shared-memory accesses made since the last barrier

vars == <<cfg, host, hpc, inp, g, unit, tb, warp, accesses>>

UninitRows(c) == [r \in Rows(c) |-> Uninit]
UninitTile(c) == [t \in Rows(c) \X Cols(c) |-> Uninit]

\* the output addresses the normalising epilogue (kIsLast) of value sub-tile
\* blockN writes through createOutputIter(blockN * kKeysPerBlock)
FinalAddrs(c, p, blockN) ==
  {p.output_ptr + OutputOffset(p, t, blockN * c.kKeysPerBlock) :
     t \in OutputTile(c, p, blockN * c.kKeysPerBlock)}

\* the tally fin (address |-> number of normalising writes) after one more
\* normalising write to each address of addrs
Tally(fin, addrs) ==
  [a \in DOMAIN fin \cup addrs |->
     (IF a \in DOMAIN fin THEN fin[a] ELSE 0) + (IF a \in addrs THEN 1 ELSE 0)]

\* the tally after the normalising epilogues of value sub-tiles blockN and up
RECURSIVE TallyValueLoop(_, _, _, _)
TallyValueLoop(c, p, fin, blockN) ==
  IF blockN >= nBlockN(c, p) THEN fin
  ELSE TallyValueLoop(c, p, Tally(fin, FinalAddrs(c, p, blockN)), blockN + 1)

\* a block before it runs; p is its copy of the kernel argument, norm the mi
\* and s_prime that the normalising epilogue (kIsLast) found, fin the tally
\* of the normalising writes the block has made
FreshUnit(c, p) ==
  [pc |-> "start", p |-> p, iter_key_start |-> 0,
   mi |-> UninitRows(c), m_prime |-> UninitRows(c), s_prime |-> UninitRows(c),
   accum |-> UninitTile(c), accum_o |-> UninitTile(c),
   norm |-> [mi |-> UninitRows(c), s_prime |-> UninitRows(c)],
   fin |-> <<>>]

LoopOrAfter(c, p, iter_key_start) ==
  IF iter_key_start < p.num_keys THEN "scores"
  ELSE IF kKeepOutputInRF(c) THEN "epilogue" ELSE "lse"

\* attention_kernel_batched_impl up to the key-tile loop: advance_to_block,
\* then the initialisation of s_prime, m_prime, mi and accum_o
EnterKernel(c, in, blockIdx, u) ==
  LET a == advance_to_block(c, u.p, in.cu_q, in.cu_k, blockIdx)
  IN IF ~a.ok THEN [u EXCEPT !.pc = "exit", !.p = a.p]
     ELSE [u EXCEPT
            !.pc = LoopOrAfter(c, a.p, 0),
            !.p = a.p,
            !.s_prime = [r \in Rows(c) |->
                           IF r \in ThreadRows(c) THEN Zero ELSE Uninit],
            !.m_prime = [r \in Rows(c) |->
                           IF r \in ThreadRows(c) THEN NInf ELSE Uninit],
            !.mi = [r \in Rows(c) |->
                      IF r \in ThreadRows(c) THEN NInf ELSE Uninit],
            !.accum_o = ClearedAccum(c)]

\* Q.K_t of the key-tile at iter_key_start, scaled, masked
ComputeScores(c, in, blockIdx, u) ==
  [u EXCEPT
    !.pc = "softmax",
    !.accum = ScoreTile(c, u.p, in.query, in.key, in.mask,
                        blockIdx[1] * c.kQueriesPerBlock, u.iter_key_start)]

\* the DISPATCH_BOOL call of iterative_softmax
UpdateSoftmax(c, u) ==
  LET r == iterative_softmax(c,
             u.p.num_keys - u.iter_key_start >= c.kKeysPerBlock,
             u.iter_key_start = 0,
             u.accum_o, u.accum, u.mi, u.m_prime, u.s_prime,
             u.p.num_keys - u.iter_key_start,
             IF c.kAddMask THEN One ELSE u.p.scale)
  IN [u EXCEPT !.pc = "attnv", !.accum = r.frag, !.accum_o = r.frag_o,
               !.mi = r.mi, !.m_prime = r.m_prime, !.s_prime = r.s_prime]

\* accumToSmem, the value sub-tile loop, and the loop increment
AttnTimesV(c, in, u, mem) ==
  LET r == ValueLoop(c, u.p, in.value, u.iter_key_start, u.accum,
                     u.s_prime, u.m_prime, u.accum_o, mem, 0)
      next == u.iter_key_start + c.kKeysPerBlock
  IN [u |-> [u EXCEPT !.pc = LoopOrAfter(c, u.p, next),
                      !.iter_key_start = next,
                      !.accum_o = r.accum_o,
                      !.norm = IF ~kKeepOutputInRF(c) /\ next >= u.p.num_keys
                                 THEN [mi |-> u.mi, s_prime |-> u.s_prime]
                                 ELSE u.norm,
                      !.fin = IF ~kKeepOutputInRF(c) /\ next >= u.p.num_keys
                                THEN TallyValueLoop(c, u.p, u.fin, 0)
                                ELSE u.fin],
      g |-> r.g]

\* if (kKeepOutputInRF) the epilogue at the end
FinalEpilogue(c, u, mem) ==
  [u |-> [u EXCEPT !.pc = "lse",
                   !.norm = [mi |-> u.mi, s_prime |-> u.s_prime],
                   !.fin = Tally(u.fin, FinalAddrs(c, u.p, 0))],
   g |-> EpilogueAtEnd(c, u.p, mem, u.s_prime, u.m_prime, u.accum_o)]

\* 7. Calculate logsumexp
EmitLogsumexp(c, u, mem) ==
  [u |-> [u EXCEPT !.pc = "done"],
   g |-> [mem EXCEPT !.logsumexp =
            Store(mem.logsumexp, LseWrites(c, u.p, u.mi, u.s_prime))]]

\* one step of a block
UnitStep(c, in, blockIdx, u, mem) ==
  CASE u.pc = "start" -> [u |-> EnterKernel(c, in, blockIdx, u), g |-> mem]
    [] u.pc = "scores" -> [u |-> ComputeScores(c, in, blockIdx, u), g |-> mem]
    [] u.pc = "softmax" -> [u |-> UpdateSoftmax(c, u), g |-> mem]
    [] u.pc = "attnv" -> AttnTimesV(c, in, u, mem)
    [] u.pc = "epilogue" -> FinalEpilogue(c, u, mem)
    [] u.pc = "lse" -> EmitLogsumexp(c, u, mem)

Finished(u) == u.pc \in {"done", "exit"}

\* attention_kernel_batched_impl of one block, run to its return
RECURSIVE RunUnit(_, _, _, _, _)
RunUnit(c, in, blockIdx, u, mem) ==
  IF Finished(u) THEN mem
  ELSE LET r == UnitStep(c, in, blockIdx, u, mem)
       IN RunUnit(c, in, blockIdx, r.u, r.g)

RECURSIVE RunBlocks(_, _, _, _, _)
RunBlocks(c, p, in, blocks, mem) ==
  IF blocks = {} THEN mem
  ELSE LET b == CHOOSE x \in blocks : TRUE
       IN RunBlocks(c, p, in, blocks \ {b},
                    RunUnit(c, in, b, FreshUnit(c, p), mem))

\* a whole launch on the grid of getBlocksGrid, one block after the other:
\* the written memory
RunKernel(c, p, in, mem) == RunBlocks(c, p, in, getBlocksGrid(c, p), mem)


(***************************************************************************)
(* The problems the caller hands to the kernel                             *)
(***************************************************************************)
MaxQueries == 3
MaxKeys == 5

RECURSIVE SumLens(_, _, _)
SumLens(lens, k, i) ==
  IF i = 0 THEN 0 ELSE lens[i][k] + SumLens(lens, k, i - 1)

Bit(seed, i) == (seed \div Pow(2, i)) % 2

\* A problem description sh:
\*   B, H, nq, nk, D, hdv   batches, heads, queries, keys, head_dim,
\*                          head_dim_value
\*   lens                   <<>> (fixed stride) or the <<queries, keys>> of
\*                          each sequence of a packed variable-length batch
\*   causal, scale, lse, accbuf
\*   kseed                  the keys: bit i of kseed gives key element i
\*   mcut, mlo, mhi, mrot   the mask: value mlo left of column mcut, mhi from
\*                          it on; with mrot every row is rotated by its index
\*   qbase, padB, padM      the address of the query buffer and the padding
\*                          of the query batch and row strides
Varlen(sh) == sh.lens # <<>>
QRows(sh) == IF Varlen(sh) THEN SumLens(sh.lens, 1, sh.B) ELSE sh.nq
KRows(sh) == IF Varlen(sh) THEN SumLens(sh.lens, 2, sh.B) ELSE sh.nk
LseDim(sh) == ceil_div(sh.nq, kAlignLSE) * kAlignLSE

HostParams(c, sh) ==
  [query_ptr |-> sh.qbase, key_ptr |-> 0, value_ptr |-> 0,
   mask_ptr |-> IF c.kAddMask THEN 0 ELSE nullptr,
   cu_seqlens_q_ptr |-> IF Varlen(sh) THEN 0 ELSE nullptr,
   cu_seqlens_k_ptr |-> IF Varlen(sh) THEN 0 ELSE nullptr,
   output_ptr |-> 0,
   output_accum_ptr |-> IF sh.accbuf THEN 0 ELSE nullptr,
   accum_in_output |-> FALSE,
   logsumexp_ptr |-> IF sh.lse THEN 0 ELSE nullptr,
   scale |-> Val(sh.scale),
   head_dim |-> sh.D, head_dim_value |-> sh.hdv,
   num_queries |-> sh.nq, num_keys |-> sh.nk,
   causal |-> sh.causal, mask_broadcast_row |-> c.kMaskBroadcastRow,
   q_strideM |-> sh.H * sh.D + sh.padM,
   k_strideM |-> sh.H * sh.D,
   v_strideM |-> sh.H * sh.hdv,
   mask_strideM |-> sh.nk,
   q_strideH |-> sh.D, k_strideH |-> sh.D, v_strideH |-> sh.hdv,
   o_strideH |-> QRows(sh) * sh.hdv,
   mask_strideH |-> sh.nq * sh.nk,
   q_strideB |-> sh.nq * (sh.H * sh.D + sh.padM) + sh.padB,
   k_strideB |-> sh.nk * sh.H * sh.D,
   v_strideB |-> sh.nk * sh.H * sh.hdv,
   o_strideB |-> sh.H * sh.nq * sh.hdv,
   mask_strideB |-> sh.H * sh.nq * sh.nk,
   num_batches |-> sh.B, num_heads |-> sh.H]

MaskValue(sh, a) ==
  LET col == a % sh.nk
      row == a \div sh.nk
      j == IF sh.mrot THEN (col + row) % sh.nk ELSE col
  IN IF j < sh.mcut THEN sh.mlo ELSE sh.mhi

InputMemory(c, sh) ==
  LET p == HostParams(c, sh)
      nb == IF Varlen(sh) THEN 1 ELSE sh.B
  IN [query |-> [a \in 0 .. sh.qbase + nb * QRows(sh) * p.q_strideM
                         + nb * sh.padB - 1 |->
                   Val(1 + (a % 2))],
      key |-> [a \in 0 .. nb * KRows(sh) * p.k_strideM - 1 |->
                 IF Bit(sh.kseed, a % MaxKeys) = 1 THEN Val(1) ELSE Val(0 - 1)],
      value |-> [a \in 0 .. nb * KRows(sh) * p.v_strideM - 1 |-> Val(a + 1)],
      mask |-> IF c.kAddMask
                 THEN [a \in 0 .. sh.B * sh.H * sh.nq * sh.nk - 1 |->
                         MaskValue(sh, a)]
                 ELSE <<>>,
      cu_q |-> IF Varlen(sh)
                 THEN [b \in 0 .. sh.B |-> SumLens(sh.lens, 1, b)] ELSE <<>>,
      cu_k |-> IF Varlen(sh)
                 THEN [b \in 0 .. sh.B |-> SumLens(sh.lens, 2, b)] ELSE <<>>]

OutputMemory(c, sh) ==
  LET nb == IF Varlen(sh) THEN 1 ELSE sh.B
      n == nb * sh.H * QRows(sh) * sh.hdv
  IN [output |-> [a \in 0 .. n - 1 |-> Uninit],
      output_accum |-> IF sh.accbuf THEN [a \in 0 .. n - 1 |-> Uninit]
                       ELSE <<>>,
      logsumexp |-> IF sh.lse
                      THEN [a \in 0 .. sh.B * sh.H * LseDim(sh) - 1 |->
                              <<Uninit, One>>]
                      ELSE <<>>]

\* tile sizes kQueriesPerBlock x kKeysPerBlock the model instantiates: the
\* square tile, a tile with fewer queries than keys, one with more queries
\* than keys and one whose key count is not a power of two
TileShapes ==
  {ts \in {<<2, 4>>, <<4, 4>>, <<6, 4>>, <<2, 6>>} :
     StaticAssertsHold(ts[1], ts[2])}

Template(shape, single, addmask, bcast, aligned) ==
  [kQueriesPerBlock |-> shape[1], kKeysPerBlock |-> shape[2],
   kSingleValueIteration |-> single, kAddMask |-> addmask,
   kMaskBroadcastRow |-> bcast, isAligned |-> aligned,
   maskIsAligned |-> aligned]

BaseShape ==
  [B |-> 1, H |-> 1, nq |-> 1, nk |-> 1, D |-> 1, hdv |-> 1, lens |-> <<>>,
   causal |-> FALSE, scale |-> 1, lse |-> TRUE, accbuf |-> FALSE,
   kseed |-> 0, mcut |-> 0, mlo |-> Zero, mhi |-> Zero, mrot |-> FALSE,
   qbase |-> 0, padB |-> 0, padM |-> 0]

Scales == {1, 2}
\* key patterns: all low, first key high, last key high, alternating
KeySeeds == {0, 1, 16, 10}
\* key counts: none, one, one short of the bound, the bound
KeyCounts == {0, 1, MaxKeys - 1, MaxKeys}
\* masks <<mcut, mlo, mhi>>
Masks ==
  {1, MaxKeys - 1} \X {<<NInf, Zero>>, <<Zero, NInf>>, <<One, Zero>>,
                       <<NInf, NInf>>}

\* one head of one batch, no mask
PlainProblems ==
  {<<Template(ts, single, FALSE, TRUE, FALSE),
     [BaseShape EXCEPT !.nq = nq, !.nk = nk, !.causal = cs[1],
                       !.scale = cs[2], !.kseed = kseed,
                       !.accbuf = ~single]>> :
     ts \in TileShapes, single \in BOOLEAN, nq \in {1, MaxQueries},
     nk \in KeyCounts, kseed \in KeySeeds,
     cs \in {x \in BOOLEAN \X Scales : ~x[1] \/ x[2] = 1}}

\* one head of one batch with an additive mask: broadcast, full with equal
\* rows, full with different rows
MaskProblems ==
  {<<Template(ts, single, TRUE, mc[1] = "broadcast", FALSE),
     [BaseShape EXCEPT !.nq = nq, !.nk = nk, !.causal = mc[2], !.scale = 2,
                       !.kseed = 10, !.accbuf = ~single,
                       !.mcut = m[1], !.mlo = m[2][1], !.mhi = m[2][2],
                       !.mrot = (mc[1] = "rows")]>> :
     ts \in TileShapes \ {<<2, 6>>}, single \in BOOLEAN,
     nq \in {1, MaxQueries}, nk \in {1, MaxKeys}, m \in Masks,
     mc \in {x \in {"broadcast", "equal", "rows"} \X BOOLEAN :
               ~x[2] \/ x[1] = "rows"}}

\* several heads and batches, wider heads, with and without the
\* log-sum-exp and accumulation buffers
GridProblems ==
  {<<Template(<<2, 4>>, single, addmask, FALSE, FALSE),
     [BaseShape EXCEPT !.B = bh[1], !.H = bh[2], !.nq = nq, !.nk = 2,
                       !.D = 2, !.hdv = 2, !.kseed = 10, !.lse = single,
                       !.accbuf = addmask /\ ~single,
                       !.mcut = 1, !.mlo = One, !.mrot = TRUE]>> :
     single \in BOOLEAN, addmask \in BOOLEAN,
     bh \in {<<2, 1>>, <<1, 2>>, <<2, 2>>}, nq \in {1, 2}}

\* packed variable-length batches of three sequences
SeqLens ==
  {<<<<1, 2>>, <<3, 1>>, <<2, 5>>>>, <<<<0, 1>>, <<2, 0>>, <<1, 1>>>>}

VarlenProblems ==
  {<<Template(<<2, 4>>, single, addmask, FALSE, FALSE),
     [BaseShape EXCEPT !.B = 3, !.nq = 3, !.nk = 5, !.lens = lens,
                       !.causal = addmask, !.kseed = 10,
                       !.accbuf = ~single,
                       !.mcut = 1, !.mlo = One, !.mrot = TRUE]>> :
     single \in BOOLEAN, addmask \in BOOLEAN, lens \in SeqLens}

\* value rows wider than a key-tile: several value sub-tiles per key-tile
WideValueProblems ==
  {<<Template(<<2, 4>>, FALSE, FALSE, TRUE, FALSE),
     [BaseShape EXCEPT !.nq = nq, !.nk = nk, !.hdv = 5, !.kseed = 16,
                       !.accbuf = accbuf]>> :
     nq \in {1, MaxQueries}, nk \in KeyCounts, accbuf \in BOOLEAN}

\* aligned kernels on buffers and strides that may be misaligned
AlignmentProblems ==
  {<<Template(<<2, 4>>, TRUE, addmask, FALSE, TRUE),
     [BaseShape EXCEPT !.B = 2, !.nq = 1, !.nk = nk, !.D = d, !.hdv = 2,
                       !.kseed = 10, !.mlo = One,
                       !.qbase = pad[1], !.padB = pad[2], !.padM = pad[3]]>> :
     addmask \in BOOLEAN, nk \in {1, 2}, d \in {1, 2},
     pad \in {0, 1} \X {0, 1} \X {0, 1}}

\* a scale of zero and a negative scale, no mask
SignedScaleProblems ==
  {<<Template(<<2, 4>>, single, FALSE, TRUE, FALSE),
     [BaseShape EXCEPT !.nq = 1, !.nk = nk, !.scale = sc, !.kseed = kseed,
                       !.accbuf = ~single]>> :
     single \in BOOLEAN, nk \in {1, MaxKeys}, kseed \in {0, 10},
     sc \in {0, 0 - 1}}

Problems ==
  PlainProblems \cup MaskProblems \cup GridProblems \cup VarlenProblems
    \cup WideValueProblems \cup AlignmentProblems \cup SignedScaleProblems

(***************************************************************************)
(* Actions                                                                 *)
(***************************************************************************)
Init ==
  \E pr \in Problems :
    /\ cfg = pr[1]
    /\ host = HostParams(pr[1], pr[2])
    /\ inp = InputMemory(pr[1], pr[2])
    /\ g = OutputMemory(pr[1], pr[2])
    /\ hpc = "check"
    /\ unit = <<>>
    /\ tb = <<>> /\ warp = <<>> /\ accesses = {}

\* the caller validates the Params before any launch
CheckSupported ==
  /\ hpc = "check"
  /\ hpc' = IF check_supported(cfg, host) THEN "ready" ELSE "rejected"
  /\ UNCHANGED <<cfg, host, inp, g, unit, tb, warp, accesses>>

\* the caller launches attention_kernel_batched_impl on getBlocksGrid
Launch ==
  /\ hpc = "ready"
  /\ hpc' = "launched"
  /\ unit' = [b \in getBlocksGrid(cfg, host) |-> FreshUnit(cfg, host)]
  /\ UNCHANGED <<cfg, host, inp, g, tb, warp, accesses>>

Step(b, pc) ==
  /\ hpc = "launched"
  /\ unit[b].pc = pc
  /\ LET r == UnitStep(cfg, inp, b, unit[b], g)
     IN /\ unit' = [unit EXCEPT ![b] = r.u]
        /\ g' = r.g
  /\ UNCHANGED <<cfg, host, hpc, inp, tb, warp, accesses>>

\* blocks of the grid resident on the device at the same time
MaxResident == 2
Resident == {b \in DOMAIN unit : unit[b].pc \notin {"start", "done", "exit"}}

KernelEntry(b) == Cardinality(Resident) < MaxResident /\ Step(b, "start")
Scores(b) == Step(b, "scores")
Softmax(b) == Step(b, "softmax")
AttnV(b) == Step(b, "attnv")
Epilogue(b) == Step(b, "epilogue")
Logsumexp(b) == Step(b, "lse")

Next ==
  \/ CheckSupported
  \/ Launch
  \/ \E b \in DOMAIN unit : KernelEntry(b)
  \/ \E b \in DOMAIN unit : Scores(b)
  \/ \E b \in DOMAIN unit : Softmax(b)
  \/ \E b \in DOMAIN unit : AttnV(b)
  \/ \E b \in DOMAIN unit : Epilogue(b)
  \/ \E b \in DOMAIN unit : Logsumexp(b)

Spec == Init /\ [][Next]_vars


(***************************************************************************)
(* One block, thread by thread                                             *)
(*                                                                         *)
(* The threads of a warp run in lockstep, the warps of the block in any    *)
(* order; __syncthreads() holds a warp until every warp of the block has   *)
(* arrived at a barrier.  A warp is kWarpSize lanes; lane l of warp w is   *)
(* thread w * kWarpSize + l and holds, of the accumulator tile, row        *)
(* (w % WarpCountM) * kWarpSize + l at the columns of warp column          *)
(* w / WarpCountM.                                                         *)
(***************************************************************************)
Lanes == 0 .. kWarpSize - 1
Warps(c) == 0 .. kNumWarpsPerBlock(c) - 1

\* thread_id(): threadIdx.x + threadIdx.y * blockDim.x
thread_id(w, l) == l + w * kWarpSize

\* int8_t holds the thread ids of four warps; above them the conversion
\* wraps to the negative half
Int8Range == 4 * kWarpSize
ToInt8(t) == ((t + Int8Range) % (2 * Int8Range)) - Int8Range

\* iteratorC_tile_offset: {warp_id % WarpCount::kM, warp_id / WarpCount::kM}
tile_offset(c, w) == <<w % WarpCountM(c), w \div WarpCountM(c)>>

\* the accumulator row of a lane and the accumulator elements of a warp
LaneRow(c, w, l) == tile_offset(c, w)[1] * kWarpSize + l
WarpElems(c, w) ==
  {<<LaneRow(c, w, l), n>> : l \in Lanes, n \in WarpCols(c, tile_offset(c, w)[2])}

\* struct ScalingCoefs: the word offsets of m_prime[i], s_prime[i], mi[i]
\* and addition_storage[i] from the start of the shared storage
MPrimeAt(c, i) == i
SPrimeAt(c, i) == c.kQueriesPerBlock + i
MiAt(c, i) == 2 * c.kQueriesPerBlock + i
AdditionAt(c, i) == 3 * c.kQueriesPerBlock + i

\* the words of ScalingCoefs and the words below it that an int8_t index
\* can reach
CoefCells(c) ==
  0 - Int8Range .. AdditionAt(c, c.kQueriesPerBlock * WarpCountN(c)) - 1

\* what a read of memory outside every array can return
JunkValues == {Zero, One, NaN}

\* the array a[0 .. kQueriesPerBlock - 1] held in the words from base on
CoefArray(c, coef, base) == [r \in Rows(c) |-> coef[base + r]]

\* the union members of SharedStorageEpilogueAtEnd and
\* SharedStorageEpilogueInLoop: do two of them share words?
Aliased(c, n1, n2) ==
  /\ n1 # n2
  /\ \/ "mm0" \in {n1, n2}
     \/ {n1, n2} = {"mask", "si"}
     \/ kKeepOutputInRF(c) /\ "epilogue" \in {n1, n2}

\* one access: kind "r" read, "w" write, "a" atomic; cell is the word of
\* ScalingCoefs for region "coef"; op is the operation that made the
\* access (a matrix product or an iterator orders its own accesses)
CoefAccess(cell, t, kind) ==
  [region |-> "coef", cell |-> cell, thread |-> t, kind |-> kind,
   op |-> "coef"]
RegionAccess(name, w, kind, op) ==
  [region |-> name, cell |-> 0, thread |-> thread_id(w, 0), kind |-> kind,
   op |-> op]

\* two accesses between the same pair of barriers that are a data race
Conflict(c, a, b) ==
  /\ a.thread # b.thread
  /\ {a.kind, b.kind} \notin {{"r"}, {"a"}}
  /\ IF a.region = "coef" \/ b.region = "coef"
       THEN a.region = b.region /\ a.cell = b.cell
       ELSE /\ a.op # b.op
            /\ a.region = b.region \/ Aliased(c, a.region, b.region)

\* the __syncthreads() inside the library calls: MaskLoader::load ends with
\* one after the mask tile is staged, and the epilogue has one between the
\* store of the accumulators and the application of the output op
LibraryBarriers == {"mask_sync", "epilogue_sync"}

\* the __syncthreads() of attention_kernel and iterative_softmax by source
\* line, and the ones inside the library calls
BarrierLabels ==
  {"L585", "L639", "L966", "L994", "L1001", "L1009", "L1036", "L754", "L774",
   "L794", "L863", "L867"} \cup LibraryBarriers

\* for (iter_key_start = 0; iter_key_start < p.num_keys; ...) and what
\* follows the loop
LoopTest(c, p, iter_key_start) ==
  IF iter_key_start < p.num_keys THEN "L585"
  ELSE IF kKeepOutputInRF(c) THEN "epilogue_end" ELSE "lse"

\* the entry of iterative_softmax: if (!kIsFirst) { ...; __syncthreads(); }
SoftmaxEntry(kIsFirst) == IF kIsFirst THEN "s975" ELSE "s964"

\* the entry of the value sub-tile loop body:
\* if (!kPreloadV) __syncthreads()
ValueEntry(kPreloadV) == IF kPreloadV THEN "mm1" ELSE "L774"

\* the warp wp after the barrier it waits at has released it
AfterBarrier(c, t, wp) ==
  CASE wp.pc = "L585" -> [wp EXCEPT !.pc = "mm0"]
    [] wp.pc = "L639" -> [wp EXCEPT !.pc = "stage"]
    [] wp.pc = "mask_sync" -> [wp EXCEPT !.pc = "maskadd"]
    [] wp.pc = "L966" -> [wp EXCEPT !.pc = "s975"]
    [] wp.pc = "L994" -> [wp EXCEPT !.pc = "s996"]
    [] wp.pc = "L1001" ->
         [wp EXCEPT !.pc = IF kKeepOutputInRF(c) /\ wp.iter_key_start # 0
                             THEN "s1006" ELSE "s1016"]
    [] wp.pc = "L1009" -> [wp EXCEPT !.pc = "s1016"]
    [] wp.pc = "L1036" -> [wp EXCEPT !.pc = "s1037"]
    [] wp.pc = "L754" -> [wp EXCEPT !.pc = ValueEntry(t.kPreloadV)]
    [] wp.pc = "L774" -> [wp EXCEPT !.pc = "mm1"]
    [] wp.pc = "L794" ->
         [wp EXCEPT !.pc = IF kKeepOutputInRF(c) THEN "L867"
                           ELSE "epi_store"]
    [] wp.pc = "epilogue_sync" ->
         [wp EXCEPT !.pc = IF kKeepOutputInRF(c) THEN "end_apply"
                           ELSE "epi_apply"]
    [] wp.pc = "L863" ->
         [wp EXCEPT !.blockN = wp.blockN + 1,
                    !.pc = IF wp.blockN + 1 < nBlockN(c, t.p)
                             THEN ValueEntry(t.kPreloadV) ELSE "L867"]
    [] wp.pc = "L867" ->
         [wp EXCEPT !.iter_key_start = wp.iter_key_start + c.kKeysPerBlock,
                    !.blockN = 0,
                    !.pc = LoopTest(c, t.p,
                                    wp.iter_key_start + c.kKeysPerBlock)]

\* tile with the elements elems taken from full
Own(tile, full, elems) ==
  [t \in DOMAIN tile |-> IF t \in elems THEN full[t] ELSE tile[t]]

\* the lanes of warp w that pass if (thread_id < kQueriesPerBlock) inside
\* iterative_softmax, where thread_id is an int8_t
CoefLanes(c, w) ==
  {l \in Lanes : ToInt8(thread_id(w, l)) < c.kQueriesPerBlock}

\* the stores of thread t at kernel entry with every coefficient set to
\* accum_t(0)
InitWrites_zero(c, t) ==
  IF t < c.kQueriesPerBlock
    THEN {<<SPrimeAt(c, t), Zero>>, <<MPrimeAt(c, t), Zero>>,
          <<MiAt(c, t), Zero>>}
    ELSE {}

\* the stores <<word, value>> of thread t at kernel entry:
\* if (thread_id() < kQueriesPerBlock) { s_prime = 0; m_prime = -inf;
\* mi = -inf }
InitWrites(c, t) ==
  IF t < c.kQueriesPerBlock
    THEN {<<SPrimeAt(c, t), Zero>>, <<MPrimeAt(c, t), NInf>>,
          <<MiAt(c, t), NInf>>}
    ELSE {}

\* where a warp goes after if (thread_id < kQueriesPerBlock) m_prime = mi,
\* were the __syncthreads() inside that if
AfterCopyMax_inside(c, w) ==
  IF CoefLanes(c, w) # {} THEN "L966" ELSE "s975"

\* where a warp goes after if (thread_id < kQueriesPerBlock) m_prime = mi:
\* to the __syncthreads() that follows the if
AfterCopyMax(c, w) == "L966"

\* a block before its threads run: p is the Params after advance_to_block,
\* coef the words of ScalingCoefs, accum and accum_o the accumulator
\* fragments of all threads, si the score tile in shared memory; mi_before
\* and contrib record mi as the key-tile found it and the value each lane
\* handed to atomicMaxFloat
FreshBlock(c, p, kPreloadV) ==
  [p |-> p, kPreloadV |-> kPreloadV,
   coef |-> [a \in CoefCells(c) |-> Uninit],
   accum |-> UninitTile(c), accum_o |-> UninitTile(c), si |-> UninitTile(c),
   mi_before |-> UninitRows(c),
   contrib |-> [x \in Rows(c) \X (0 .. WarpCountN(c) - 1) |-> Uninit]]

FreshWarp ==
  [pc |-> "init", iter_key_start |-> 0, blockN |-> 0,
   bars |-> [b \in BarrierLabels |-> 0]]

WarpAt(w, pc) == hpc = "block" /\ w \in DOMAIN warp /\ warp[w].pc = pc

\* where warp w goes from the step it is at (wp is its record)
AfterStep(c, t, w, wp) ==
  CASE wp.pc = "init" -> LoopTest(c, t.p, 0)
    [] wp.pc = "mm0" -> "L639"
    [] wp.pc = "stage" ->
         IF c.kAddMask THEN "mask_sync"
         ELSE SoftmaxEntry(wp.iter_key_start = 0)
    [] wp.pc = "maskadd" -> SoftmaxEntry(wp.iter_key_start = 0)
    [] wp.pc = "s964" -> AfterCopyMax(c, w)
    [] wp.pc = "s975" -> "L994"
    [] wp.pc = "s996" -> "L1001"
    [] wp.pc = "s1006" -> "L1009"
    [] wp.pc = "s1016" -> "L1036"
    [] wp.pc = "s1037" -> "L754"
    [] wp.pc = "mm1" -> "L794"
    [] wp.pc \in {"epi_store", "epilogue_end"} -> "epilogue_sync"
    [] wp.pc = "epi_apply" -> "L863"
    [] wp.pc = "end_apply" -> "lse"
    [] wp.pc = "lse" -> "done"

\* warp w is issued: it runs to its next barrier or step
Issue(w) ==
  /\ hpc = "block"
  /\ warp[w].pc \notin BarrierLabels \cup {"done"}
  /\ warp' = [warp EXCEPT ![w].pc = AfterStep(cfg, tb, w, warp[w])]

\* every warp waits at a barrier: all are released
Release ==
  /\ hpc = "block"
  /\ \A w \in DOMAIN warp : warp[w].pc \in BarrierLabels
  /\ warp' = [w \in DOMAIN warp |->
                [AfterBarrier(cfg, tb, warp[w]) EXCEPT
                   !.bars[warp[w].pc] = @ + 1]]

\* the warp scheduler of the multiprocessor
Scheduler == Release \/ \E w \in DOMAIN warp : Issue(w)

WarpStep(w, t1, g1, log) ==
  /\ Issue(w)
  /\ tb' = t1
  /\ g' = g1
  /\ accesses' = accesses \cup log
  /\ UNCHANGED <<cfg, host, hpc, inp, unit>>

\* kernel entry: the initialisation of s_prime, m_prime and mi, and
\* accum_o.clear()
WReset(w) ==
  /\ WarpAt(w, "init")
  /\ LET wr == UNION {InitWrites(cfg, thread_id(w, l)) : l \in Lanes}
     IN WarpStep(w,
          [tb EXCEPT !.coef = Store(tb.coef, wr),
                     !.accum_o = Own(tb.accum_o, ClearedAccum(cfg),
                                     WarpElems(cfg, w))],
          g,
          UNION {{CoefAccess(x[1], thread_id(w, l), "w") :
                    x \in InitWrites(cfg, thread_id(w, l))} : l \in Lanes})

\* MATMUL: Q.K_t through shared_storage.mm0
WMatmulQK(w) ==
  /\ WarpAt(w, "mm0")
  /\ WarpStep(w,
       [tb EXCEPT !.accum =
          Own(tb.accum,
              MatmulQK(cfg, tb.p, inp.query, inp.key, warp[w].iter_key_start),
              WarpElems(cfg, w))],
       g, {RegionAccess("mm0", w, "w", "mm0")})

\* prologueV(0), the scaling by p.scale, and either the store of the mask
\* tile into shared_storage.after_mm0.mask or the causal masking
WStage(w) ==
  /\ WarpAt(w, "stage")
  /\ LET iks == warp[w].iter_key_start
         scaled == ScaleScores(cfg, tb.p, tb.accum)
         pre == IF tb.kPreloadV
                  THEN {RegionAccess("mm1", w, "w", "prologueV")} ELSE {}
     IN IF cfg.kAddMask
          THEN WarpStep(w,
                 [tb EXCEPT !.accum = Own(tb.accum, scaled, WarpElems(cfg, w))],
                 g, pre \cup {RegionAccess("mask", w, "w", "maskload")})
          ELSE WarpStep(w,
                 [tb EXCEPT !.accum =
                    Own(tb.accum, CausalMask(cfg, tb.p, 0, iks, scaled),
                        WarpElems(cfg, w))],
                 g, pre)

\* Pij += Bij from the mask tile in shared memory, then the causal masking
WAddMask(w) ==
  /\ WarpAt(w, "maskadd")
  /\ LET iks == warp[w].iter_key_start
     IN WarpStep(w,
          [tb EXCEPT !.accum =
             Own(tb.accum,
                 CausalMask(cfg, tb.p, 0, iks,
                   AddMask(cfg, tb.p, inp.mask, 0, iks, tb.accum)),
                 WarpElems(cfg, w))],
          g, {RegionAccess("mask", w, "r", "maskread")})

\* if (thread_id < kQueriesPerBlock) m_prime[thread_id] = mi[thread_id]
WCopyMax(w) ==
  /\ WarpAt(w, "s964")
  /\ LET ids == {ToInt8(thread_id(w, l)) : l \in CoefLanes(cfg, w)}
     IN WarpStep(w,
          [tb EXCEPT !.coef =
             Store(tb.coef,
                   {<<MPrimeAt(cfg, i), tb.coef[MiAt(cfg, i)]>> : i \in ids})],
          g,
          UNION {{CoefAccess(MiAt(cfg, ToInt8(thread_id(w, l))),
                             thread_id(w, l), "r"),
                  CoefAccess(MPrimeAt(cfg, ToInt8(thread_id(w, l))),
                             thread_id(w, l), "w")} :
                 l \in CoefLanes(cfg, w)})

\* the row maximum of each lane, atomicMaxFloat(&mi[accum_m], max * scaling)
\* and frag = scaling * frag
WAtomicMax(w) ==
  /\ WarpAt(w, "s975")
  /\ LET iks == warp[w].iter_key_start
         max_col == tb.p.num_keys - iks
         inrange == [n \in Cols(cfg) |->
                       InRange(max_col >= cfg.kKeysPerBlock, n, max_col)]
         scaling == IF cfg.kAddMask THEN One ELSE tb.p.scale
         wn == tile_offset(cfg, w)[2]
         val(l) == Mul(RowMaxFrom(NInf, tb.accum, LaneRow(cfg, w, l),
                                   wn * kWarpSize,
                                   wn * kWarpSize + kWarpSize - 1, inrange),
                        scaling)
         rowlane(r) == CHOOSE l \in Lanes : LaneRow(cfg, w, l) = r
         myrows == {LaneRow(cfg, w, l) : l \in Lanes}
     IN WarpStep(w,
          [tb EXCEPT
             !.coef = Store(tb.coef,
                        {<<MiAt(cfg, r),
                           atomicMaxFloat(tb.coef[MiAt(cfg, r)],
                                          val(rowlane(r)))>> : r \in myrows}),
             !.contrib = [x \in DOMAIN tb.contrib |->
                            IF x[1] \in myrows /\ x[2] = wn
                              THEN val(rowlane(x[1])) ELSE tb.contrib[x]],
             !.accum = Own(tb.accum, ScaledFrag(tb.accum, scaling),
                           WarpElems(cfg, w))],
          g,
          {CoefAccess(MiAt(cfg, LaneRow(cfg, w, l)), thread_id(w, l), "a") :
             l \in Lanes})

\* if (thread_id < kQueriesPerBlock) { m_prime_exp = exp2f(kLog2e *
\* (m_prime[thread_id] - mi[thread_id])); m_prime[thread_id] = m_prime_exp;
\* s_prime[thread_id] *= m_prime_exp; }  A negative thread_id reads below
\* the shared storage: its m_prime_exp is any value
WRescale(w) ==
  /\ WarpAt(w, "s996")
  /\ LET ids == {ToInt8(thread_id(w, l)) : l \in CoefLanes(cfg, w)}
     IN \E junk \in IF \E i \in ids : i < 0 THEN JunkValues ELSE {Zero} :
          LET e(i) == IF i < 0 THEN junk
                      ELSE Exp(Sub(tb.coef[MPrimeAt(cfg, i)],
                                   tb.coef[MiAt(cfg, i)]))
              s(i) == IF SPrimeAt(cfg, i) < 0 THEN junk
                      ELSE Mul(tb.coef[SPrimeAt(cfg, i)], e(i))
          IN WarpStep(w,
               [tb EXCEPT !.coef =
                  Store(tb.coef,
                        {<<MPrimeAt(cfg, i), e(i)>> : i \in ids}
                          \cup {<<SPrimeAt(cfg, i), s(i)>> : i \in ids})],
               g,
               UNION {LET i == ToInt8(thread_id(w, l))
                          t == thread_id(w, l)
                      IN {CoefAccess(MPrimeAt(cfg, i), t, "r"),
                          CoefAccess(MiAt(cfg, i), t, "r"),
                          CoefAccess(MPrimeAt(cfg, i), t, "w"),
                          CoefAccess(SPrimeAt(cfg, i), t, "r"),
                          CoefAccess(SPrimeAt(cfg, i), t, "w")} :
                      l \in CoefLanes(cfg, w)})

\* if (kKeepOutputInRF && !kIsFirst) frag_o[idx] *= m_prime[accum_m]
WRescaleOutput(w) ==
  /\ WarpAt(w, "s1006")
  /\ WarpStep(w,
       [tb EXCEPT !.accum_o =
          [t \in DOMAIN tb.accum_o |->
             IF t \in WarpElems(cfg, w)
               THEN Mul(tb.accum_o[t], tb.coef[MPrimeAt(cfg, t[1])])
               ELSE tb.accum_o[t]]],
       g,
       {CoefAccess(MPrimeAt(cfg, LaneRow(cfg, w, l)), thread_id(w, l), "r") :
          l \in Lanes})

\* frag[idx] = exp2f(frag[idx] - mi_row) or 0, and the row sums of the
\* warp into addition_storage
WExponentiate(w) ==
  /\ WarpAt(w, "s1016")
  /\ LET iks == warp[w].iter_key_start
         max_col == tb.p.num_keys - iks
         wn == tile_offset(cfg, w)[2]
         frag == [t \in WarpElems(cfg, w) |->
                    IF InRange(max_col >= cfg.kKeysPerBlock, t[2], max_col)
                      THEN Exp(Sub(tb.accum[t], tb.coef[MiAt(cfg, t[1])]))
                      ELSE Zero]
         total(r) == SumFrom(Zero,
                       [k \in 1 .. kWarpSize |->
                          frag[<<r, wn * kWarpSize + k - 1>>]],
                       1)
         myrows == {LaneRow(cfg, w, l) : l \in Lanes}
     IN WarpStep(w,
          [tb EXCEPT
             !.accum = [t \in DOMAIN tb.accum |->
                          IF t \in WarpElems(cfg, w) THEN frag[t]
                          ELSE tb.accum[t]],
             !.coef = Store(tb.coef,
                        {<<AdditionAt(cfg, r + cfg.kQueriesPerBlock * wn),
                           total(r)>> : r \in myrows})],
          g,
          UNION {{CoefAccess(MiAt(cfg, LaneRow(cfg, w, l)),
                             thread_id(w, l), "r"),
                  CoefAccess(AdditionAt(cfg, LaneRow(cfg, w, l)
                                               + cfg.kQueriesPerBlock * wn),
                             thread_id(w, l), "w")} : l \in Lanes})

\* if (lane_id < kLinesPerWarp) s_prime[id] += the sums of the warp columns
\* in addition_storage; then accumToSmem(shared_storage.after_mm0.si, accum)
WAccumulate(w) ==
  /\ WarpAt(w, "s1037")
  /\ LET ls == {l \in Lanes : l < kLinesPerWarp(cfg)}
         id(l) == w * kLinesPerWarp(cfg) + l
         total(l) == SumFrom(tb.coef[SPrimeAt(cfg, id(l))],
                       [i \in 1 .. WarpCountN(cfg) |->
                          tb.coef[AdditionAt(cfg,
                                    id(l) + cfg.kQueriesPerBlock * (i - 1))]],
                       1)
     IN WarpStep(w,
          [tb EXCEPT
             !.coef = Store(tb.coef,
                            {<<SPrimeAt(cfg, id(l)), total(l)>> : l \in ls}),
             !.si = Own(tb.si, tb.accum, WarpElems(cfg, w))],
          g,
          {RegionAccess("si", w, "w", "accumToSmem")}
            \cup UNION {{CoefAccess(SPrimeAt(cfg, id(l)), thread_id(w, l), "r"),
                         CoefAccess(SPrimeAt(cfg, id(l)), thread_id(w, l), "w")}
                          \cup {CoefAccess(
                                  AdditionAt(cfg, id(l)
                                    + cfg.kQueriesPerBlock * (i - 1)),
                                  thread_id(w, l), "r") :
                                i \in 1 .. WarpCountN(cfg)} : l \in ls})

\* MATMUL: Attn . V for value sub-tile blockN: mma_pv reads the score tile
\* si and stages V in shared_storage.after_mm0.mm1
WMatmulPV(w) ==
  /\ WarpAt(w, "mm1")
  /\ WarpStep(w,
       [tb EXCEPT !.accum_o =
          Own(tb.accum_o,
              MatmulPV(cfg, tb.p, inp.value, warp[w].iter_key_start, tb.si,
                       IF kKeepOutputInRF(cfg) THEN tb.accum_o
                       ELSE ClearedAccum(cfg),
                       warp[w].blockN),
              WarpElems(cfg, w))],
       g,
       {RegionAccess("si", w, "r", "mm1"), RegionAccess("mm1", w, "w", "mm1")})

\* prologueV(blockN + 1) inside the loop, then the first half of the
\* epilogue: the accumulators of the warp go to the epilogue's shared storage
WEpilogueStore(w) ==
  /\ warp[w].pc \in {"epi_store", "epilogue_end"}
  /\ WarpAt(w, warp[w].pc)
  /\ WarpStep(w, tb, g,
       {RegionAccess("epilogue", w, "w", "epilogue")}
         \cup IF /\ warp[w].pc = "epi_store"
                 /\ tb.kPreloadV
                 /\ warp[w].blockN + 1 < nBlockN(cfg, tb.p)
                THEN {RegionAccess("mm1", w, "w", "prologueV")} ELSE {})

\* the addresses of the output elements of warp w in value sub-tile blockN,
\* in output and in output_accum
WarpOutput(c, p, w, blockN) ==
  {base + OutputOffset(p, t, blockN * c.kKeysPerBlock) :
     base \in {p.output_ptr, p.output_accum_ptr} \ {nullptr},
     t \in WarpElems(c, w) \cap OutputTile(c, p, blockN * c.kKeysPerBlock)}

\* mem with the cells addrs of output and output_accum taken from mem1
MergeWrites(mem, mem1, addrs) ==
  [mem EXCEPT
     !.output = [a \in DOMAIN mem.output |->
                   IF a \in addrs THEN mem1.output[a] ELSE mem.output[a]],
     !.output_accum = [a \in DOMAIN mem.output_accum |->
                         IF a \in addrs THEN mem1.output_accum[a]
                         ELSE mem.output_accum[a]]]

\* the second half of the epilogue: the output op
\* MemoryEfficientAttentionNormalize(s_prime, m_prime) on the elements of
\* the warp, written through the destination iterator
WEpilogueApply(w) ==
  /\ warp[w].pc \in {"epi_apply", "end_apply"}
  /\ WarpAt(w, warp[w].pc)
  /\ LET iks == warp[w].iter_key_start
         kIsFirst == kKeepOutputInRF(cfg) \/ iks = 0
         kIsLast == kKeepOutputInRF(cfg)
                      \/ iks + cfg.kKeysPerBlock >= tb.p.num_keys
         s_prime == CoefArray(cfg, tb.coef, SPrimeAt(cfg, 0))
         m_prime == CoefArray(cfg, tb.coef, MPrimeAt(cfg, 0))
         g1 == IF kKeepOutputInRF(cfg)
                 THEN EpilogueAtEnd(cfg, tb.p, g, s_prime, m_prime, tb.accum_o)
                 ELSE EpilogueInLoop(cfg, tb.p, g, kIsFirst, kIsLast,
                                     s_prime, m_prime, tb.accum_o,
                                     warp[w].blockN)
     IN WarpStep(w, tb,
          MergeWrites(g, g1, WarpOutput(cfg, tb.p, w, warp[w].blockN)),
          {RegionAccess("epilogue", w, "r", "epilogue")}
            \cup {CoefAccess(SPrimeAt(cfg, LaneRow(cfg, w, l)),
                             thread_id(w, l), "r") : l \in {x \in Lanes : kIsLast}}
            \cup {CoefAccess(MPrimeAt(cfg, LaneRow(cfg, w, l)),
                             thread_id(w, l), "r") :
                    l \in {x \in Lanes : ~kIsFirst}})

\* 7. Calculate logsumexp: thread_id() here is the int16_t one
WLogsumexp(w) ==
  /\ WarpAt(w, "lse")
  /\ LET ts == {thread_id(w, l) : l \in Lanes}
         mine(a) == [r \in Rows(cfg) |-> IF r \in ts THEN a[r] ELSE Zero]
         wr == {x \in LseWrites(cfg, tb.p,
                                mine(CoefArray(cfg, tb.coef, MiAt(cfg, 0))),
                                mine(CoefArray(cfg, tb.coef,
                                               SPrimeAt(cfg, 0)))) :
                  x[1] - tb.p.logsumexp_ptr \in ts}
     IN WarpStep(w, tb,
          [g EXCEPT !.logsumexp = Store(g.logsumexp, wr)],
          UNION {{CoefAccess(MiAt(cfg, t), t, "r"),
                  CoefAccess(SPrimeAt(cfg, t), t, "r")} :
                 t \in {x \in ts : tb.p.logsumexp_ptr # nullptr
                                     /\ x < Min(cfg.kQueriesPerBlock,
                                                tb.p.num_queries)}})

\* __syncthreads(): every warp of the block waits at a barrier; all are
\* released and the accesses before the barrier are ordered before all
\* later ones
Syncthreads ==
  /\ Release
  /\ tb' = IF \E w \in DOMAIN warp : warp[w].pc = "L639"
             THEN [tb EXCEPT
                     !.mi_before = CoefArray(cfg, tb.coef, MiAt(cfg, 0)),
                     !.contrib = [x \in DOMAIN tb.contrib |-> Uninit]]
             ELSE tb
  /\ accesses' = {}
  /\ UNCHANGED <<cfg, host, hpc, inp, g, unit>>

\* kPreloadV: true on compute capability 8.0 and above with a 16-bit
\* scalar_t
WarpProblems ==
  {<<Template(<<2, 4>>, single, addmask, TRUE, FALSE),
     [BaseShape EXCEPT !.nk = nk, !.hdv = IF single THEN 1 ELSE MaxKeys,
                       !.scale = IF addmask THEN 2 ELSE 1, !.kseed = 10,
                       !.accbuf = ~single, !.mcut = 1, !.mlo = One],
     preload>> :
     single \in BOOLEAN, addmask \in BOOLEAN, preload \in BOOLEAN,
     nk \in {0, 1, MaxKeys}}
  \cup
  {<<Template(<<2, 4>>, TRUE, FALSE, TRUE, FALSE),
     [BaseShape EXCEPT !.nk = nk, !.scale = sc], FALSE>> :
     nk \in {1, MaxKeys}, sc \in {0, 0 - 1}}
  \cup
  {<<Template(ts, TRUE, FALSE, TRUE, FALSE),
     [BaseShape EXCEPT !.nq = MaxQueries, !.nk = 1, !.kseed = 1], FALSE>> :
     ts \in {<<4, 4>>, <<6, 4>>}}

WarpInit ==
  \E pr \in WarpProblems :
    LET p == HostParams(pr[1], pr[2])
        in == InputMemory(pr[1], pr[2])
        a == advance_to_block(pr[1], p, in.cu_q, in.cu_k, <<0, 0, 0>>)
    IN /\ cfg = pr[1]
       /\ host = p
       /\ inp = in
       /\ g = OutputMemory(pr[1], pr[2])
       /\ hpc = "block"
       /\ unit = <<>>
       /\ tb = FreshBlock(pr[1], a.p, pr[3])
       /\ warp = [w \in Warps(pr[1]) |-> FreshWarp]
       /\ accesses = {}

WarpNext ==
  \/ \E w \in DOMAIN warp : WReset(w)
  \/ \E w \in DOMAIN warp : WMatmulQK(w)
  \/ \E w \in DOMAIN warp : WStage(w)
  \/ \E w \in DOMAIN warp : WAddMask(w)
  \/ \E w \in DOMAIN warp : WCopyMax(w)
  \/ \E w \in DOMAIN warp : WAtomicMax(w)
  \/ \E w \in DOMAIN warp : WRescale(w)
  \/ \E w \in DOMAIN warp : WRescaleOutput(w)
  \/ \E w \in DOMAIN warp : WExponentiate(w)
  \/ \E w \in DOMAIN warp : WAccumulate(w)
  \/ \E w \in DOMAIN warp : WMatmulPV(w)
  \/ \E w \in DOMAIN warp : WEpilogueStore(w)
  \/ \E w \in DOMAIN warp : WEpilogueApply(w)
  \/ \E w \in DOMAIN warp : WLogsumexp(w)
  \/ Syncthreads

\* the scheduler keeps issuing warps that can run, and a barrier at which
\* every warp has arrived opens
WarpSpec == WarpInit /\ [][WarpNext]_vars /\ WF_warp(Scheduler)


(***************************************************************************)
(* Reference: unfused attention on the tensors the caller passed           *)
(***************************************************************************)
\* the tensors behind the host Params p: element addresses by the layout
\* the caller documented (batch b, head h, row i or key j)
IsVarlen(p) == p.cu_seqlens_q_ptr # nullptr
SeqQueries(p, in, b) ==
  IF IsVarlen(p) THEN in.cu_q[b + 1] - in.cu_q[b] ELSE p.num_queries
SeqKeys(p, in, b) ==
  IF IsVarlen(p) THEN in.cu_k[b + 1] - in.cu_k[b] ELSE p.num_keys
QueryAddr(p, in, b, h, i, d) ==
  p.query_ptr + h * p.q_strideH + d
    + (IF IsVarlen(p) THEN (in.cu_q[b] + i) * p.q_strideM
       ELSE b * p.q_strideB + i * p.q_strideM)
KeyAddr(p, in, b, h, j, d) ==
  p.key_ptr + h * p.k_strideH + d
    + (IF IsVarlen(p) THEN (in.cu_k[b] + j) * p.k_strideM
       ELSE b * p.k_strideB + j * p.k_strideM)
ValueAddr(p, in, b, h, j, col) ==
  p.value_ptr + h * p.v_strideH + col
    + (IF IsVarlen(p) THEN (in.cu_k[b] + j) * p.v_strideM
       ELSE b * p.v_strideB + j * p.v_strideM)
MaskAddr(p, b, h, i, j) ==
  p.mask_ptr + b * p.mask_strideB + h * p.mask_strideH + i * p.mask_strideM + j
OutputAddr(p, in, b, h, i, col) ==
  p.output_ptr + h * p.o_strideH + col
    + (IF IsVarlen(p) THEN (in.cu_q[b] + i) * p.head_dim_value
       ELSE b * p.o_strideB + i * p.head_dim_value)
LseAddr(p, b, h, i) ==
  LET lse_dim == ceil_div(p.num_queries, kAlignLSE) * kAlignLSE
  IN p.logsumexp_ptr + b * lse_dim * p.num_heads + h * lse_dim + i

\* scale * Q_i . K_j + mask_ij
RefLogit(p, in, b, h, i, j) ==
  LET qk == SumFrom(Zero,
              [d \in 1 .. p.head_dim |->
                 Mul(in.query[QueryAddr(p, in, b, h, i, d - 1)],
                     in.key[KeyAddr(p, in, b, h, j, d - 1)])],
              1)
      sc == Mul(p.scale, qk)
  IN IF p.mask_ptr # nullptr
       THEN Add(sc, in.mask[MaskAddr(p, b, h, i, j)])
       ELSE sc

\* the full score row of query i over the keys 0 .. n - 1 (a sequence)
RefScores(p, in, b, h, i, n) ==
  [k \in 1 .. n |-> RefLogit(p, in, b, h, i, k - 1)]

RECURSIVE MaxFrom(_, _, _)
MaxFrom(m, s, i) ==
  IF i > Len(s) THEN m ELSE MaxFrom(FastMax(m, s[i]), s, i + 1)

\* softmax of a materialised score row
RefSoftmax(scores) ==
  LET mx == MaxFrom(NInf, scores, 1)
      e == [k \in 1 .. Len(scores) |-> Exp(Sub(scores[k], mx))]
      total == SumFrom(Zero, e, 1)
  IN [k \in 1 .. Len(scores) |-> Mul(e[k], Recip(total))]

\* sum_j softmax_j * V_j over the keys 0 .. n - 1, column col
RefOutput(p, in, b, h, i, col, n) ==
  LET sm == RefSoftmax(RefScores(p, in, b, h, i, n))
  IN SumFrom(Zero,
             [k \in 1 .. n |->
                Mul(sm[k], in.value[ValueAddr(p, in, b, h, k - 1, col)])],
             1)

QueryStart(c, blockIdx) == blockIdx[1] * c.kQueriesPerBlock

\* the query rows block blockIdx owns once it is past advance_to_block
OwnedRows(c, u, blockIdx) ==
  {QueryStart(c, blockIdx) + r :
     r \in 0 .. Min(c.kQueriesPerBlock, u.p.num_queries) - 1}

HasWork(u) == u.pc \notin {"start", "exit"}

AllFinished ==
  hpc = "launched" /\ \A b \in DOMAIN unit : Finished(unit[b])

\* output buffers of the size of mem that nobody has written
Unwritten(mem) ==
  [output |-> [a \in DOMAIN mem.output |-> Uninit],
   output_accum |-> [a \in DOMAIN mem.output_accum |-> Uninit],
   logsumexp |-> [a \in DOMAIN mem.logsumexp |-> <<Uninit, One>>]]

Batches == 0 .. host.num_batches - 1
Heads == 0 .. host.num_heads - 1

(***************************************************************************)
(* C1                                                                      *)
(***************************************************************************)
\* C1: with causal off, a finished block has written, for each query row it
\* owns and each output column, the reference attention over all the keys
\* of its sequence: sum_j softmax_j(scale * Q_i.K_j + mask_ij) * V_j.
OutputIsReferenceAttention ==
  hpc = "launched" /\ ~host.causal =>
    \A b \in DOMAIN unit :
      unit[b].pc = "done" =>
        \A i \in OwnedRows(cfg, unit[b], b) :
          \A col \in 0 .. host.head_dim_value - 1 :
            g.output[OutputAddr(host, inp, b[3], b[2], i, col)]
              = RefOutput(host, inp, b[3], b[2], i, col,
                          SeqKeys(host, inp, b[3]))

(***************************************************************************)
(* C2                                                                      *)
(***************************************************************************)
\* C2: with causal set, in every key-tile handed to the softmax, every score
\* of a row and column inside the problem whose absolute key position
\* exceeds its absolute query position is negative infinity.
CausalScoresAreMasked ==
  hpc = "launched" /\ host.causal =>
    \A b \in DOMAIN unit :
      unit[b].pc = "softmax" =>
        \A t \in Rows(cfg) \X Cols(cfg) :
          /\ t[1] < problem_size_0_m(cfg, unit[b].p)
          /\ t[2] < problem_size_0_n(cfg, unit[b].p, unit[b].iter_key_start)
          /\ unit[b].iter_key_start + t[2] > QueryStart(cfg, b) + t[1]
          => unit[b].accum[t] = NInf

(***************************************************************************)
(* C3                                                                      *)
(***************************************************************************)
WithTile(c, ts) ==
  [c EXCEPT !.kQueriesPerBlock = ts[1], !.kKeysPerBlock = ts[2]]

\* C3: once the launch has finished, the output rows and the log-sum-exp
\* values equal those of the same problem run with any other admitted pair
\* of tile sizes.
TilingInvariant ==
  AllFinished =>
    \A ts \in TileShapes :
      LET r == RunKernel(WithTile(cfg, ts), host, inp, Unwritten(g))
      IN r.output = g.output /\ r.logsumexp = g.logsumexp

(***************************************************************************)
(* C4                                                                      *)
(***************************************************************************)
\* the Params of sequence b of a packed batch handed to the fixed-stride
\* path alone: one batch, the sequence's own counts, every buffer starting
\* at the sequence's first packed row
AloneParams(p, in, b) ==
  [p EXCEPT
    !.cu_seqlens_q_ptr = nullptr, !.cu_seqlens_k_ptr = nullptr,
    !.num_batches = 1,
    !.num_queries = in.cu_q[b + 1] - in.cu_q[b],
    !.num_keys = in.cu_k[b + 1] - in.cu_k[b],
    !.query_ptr = p.query_ptr + in.cu_q[b] * p.q_strideM,
    !.key_ptr = p.key_ptr + in.cu_k[b] * p.k_strideM,
    !.value_ptr = p.value_ptr + in.cu_k[b] * p.v_strideM,
    !.output_ptr = p.output_ptr + in.cu_q[b] * p.head_dim_value,
    !.output_accum_ptr = IF p.output_accum_ptr = nullptr THEN nullptr
                         ELSE p.output_accum_ptr
                                + in.cu_q[b] * p.head_dim_value,
    !.mask_ptr = IF p.mask_ptr = nullptr THEN nullptr
                 ELSE p.mask_ptr + b * p.mask_strideB]

\* C4: with cumulative-offset tables, a block with work starts at the packed
\* rows of its batch (queries from cu_q[b] + query_start, keys and values
\* from cu_k[b], output at the queries' packed rows) with the batch's own
\* counts, and the finished launch leaves for every sequence the output the
\* fixed-stride path gives for that sequence alone.
VarlenMatchesAlone ==
  hpc = "launched" /\ IsVarlen(host) =>
    /\ \A b \in DOMAIN unit :
         HasWork(unit[b]) =>
           LET u == unit[b].p
               qs == QueryStart(cfg, b)
               nk == SeqKeys(host, inp, b[3])
           IN /\ u.query_ptr = QueryAddr(host, inp, b[3], b[2], qs, 0)
              /\ u.key_ptr = KeyAddr(host, inp, b[3], b[2], 0, 0)
              /\ u.value_ptr = ValueAddr(host, inp, b[3], b[2], 0, 0)
              /\ u.output_ptr = OutputAddr(host, inp, b[3], b[2], qs, 0)
              /\ u.num_queries = SeqQueries(host, inp, b[3]) - qs
              /\ u.num_keys = IF host.causal
                                THEN Min(qs + cfg.kQueriesPerBlock, nk)
                                ELSE nk
    /\ AllFinished =>
         \A b \in Batches :
           LET r == RunKernel(cfg, AloneParams(host, inp, b), inp,
                              Unwritten(g))
           IN \A h \in Heads :
                \A i \in 0 .. SeqQueries(host, inp, b) - 1 :
                  \A col \in 0 .. host.head_dim_value - 1 :
                    LET a == OutputAddr(host, inp, b, h, i, col)
                    IN g.output[a] = r.output[a]

\* a packed batch has finished whose second sequence has several queries and
\* a key, and whose output rows were written
VarlenMatchesAlone_witness ==
  /\ AllFinished /\ IsVarlen(host)
  /\ inp.cu_q[1] > 0
  /\ SeqQueries(host, inp, 1) > cfg.kQueriesPerBlock
  /\ SeqKeys(host, inp, 1) > 0
  /\ \A i \in 0 .. SeqQueries(host, inp, 1) - 1 :
       IsFinite(g.output[OutputAddr(host, inp, 1, 0, i, 0)])

(***************************************************************************)
(* C5                                                                      *)
(***************************************************************************)
\* every row of the mask of every (batch, head) equals its row 0
MaskRowsEqual(p, in) ==
  \A b \in 0 .. p.num_batches - 1 :
    \A h \in 0 .. p.num_heads - 1 :
      \A i \in 0 .. p.num_queries - 1 :
        \A j \in 0 .. p.num_keys - 1 :
          in.mask[MaskAddr(p, b, h, i, j)] = in.mask[MaskAddr(p, b, h, 0, j)]

\* C5: on a mask whose rows are all identical, the finished launch leaves
\* the output (and log-sum-exp) that the kernel with the other setting of
\* kMaskBroadcastRow leaves on the same buffers.
BroadcastMatchesFullMask ==
  AllFinished /\ cfg.kAddMask /\ MaskRowsEqual(host, inp) =>
    LET r == RunKernel([cfg EXCEPT !.kMaskBroadcastRow = ~@],
                       [host EXCEPT !.mask_broadcast_row = ~@], inp,
                       Unwritten(g))
    IN r.output = g.output /\ r.logsumexp = g.logsumexp

\* a broadcast-mode launch has finished on several queries and a mask that
\* differs between the keys, leaving finite output
BroadcastMatchesFullMask_witness ==
  /\ AllFinished /\ cfg.kAddMask /\ cfg.kMaskBroadcastRow
  /\ MaskRowsEqual(host, inp)
  /\ host.num_queries > 1 /\ host.num_keys > cfg.kKeysPerBlock
  /\ \E j \in 1 .. host.num_keys - 1 :
       inp.mask[MaskAddr(host, 0, 0, 0, j)]
         # inp.mask[MaskAddr(host, 0, 0, 0, 0)]
  /\ \A i \in 0 .. host.num_queries - 1 :
       IsFinite(g.output[OutputAddr(host, inp, 0, 0, i, 0)])

(***************************************************************************)
(* C6                                                                      *)
(***************************************************************************)
\* the normalising epilogue of the block has run: the epilogue at the end,
\* or the epilogue of the last key-tile when there is a key-tile
EpilogueRan(c, u) == kKeepOutputInRF(c) \/ u.p.num_keys > 0

\* C6: with a log-sum-exp buffer, from the normalising epilogue on mi and
\* s_prime stay what that epilogue found, and a finished block has written
\* for each query row r it owns the value mi[r] + log(s_prime[r]) of them.
LseIsMaxPlusLogSum ==
  hpc = "launched" /\ host.logsumexp_ptr # nullptr =>
    \A b \in DOMAIN unit :
      unit[b].pc \in {"lse", "done"} /\ EpilogueRan(cfg, unit[b]) =>
        /\ unit[b].mi = unit[b].norm.mi
        /\ unit[b].s_prime = unit[b].norm.s_prime
        /\ unit[b].pc = "done" =>
             \A i \in OwnedRows(cfg, unit[b], b) :
               LET r == i - QueryStart(cfg, b)
               IN g.logsumexp[LseAddr(host, b[3], b[2], i)]
                    = LogSum(unit[b].norm.mi[r], unit[b].norm.s_prime[r])

\* a block that went through two key-tiles has written a finite
\* log-sum-exp whose sum is not 1
LseIsMaxPlusLogSum_witness ==
  /\ hpc = "launched" /\ host.logsumexp_ptr # nullptr
  /\ \E b \in DOMAIN unit :
       /\ unit[b].pc = "done"
       /\ unit[b].iter_key_start > cfg.kKeysPerBlock
       /\ LET v == g.logsumexp[LseAddr(host, b[3], b[2], QueryStart(cfg, b))]
          IN IsFinite(v[1]) /\ v[2] # One

(***************************************************************************)
(* C7                                                                      *)
(***************************************************************************)
AlignedQueryCount(n) == ceil_div(n, kAlignLSE) * kAlignLSE

\* the slots of the log-sum-exp row of (batch, head)
LseRow(p, b, h) ==
  {LseAddr(p, b, h, i) : i \in 0 .. AlignedQueryCount(p.num_queries) - 1}

\* C7: a block about to emit its log-sum-exp writes only slots of its own
\* (batch, head) row, and once every block has finished the slots from the
\* batch's query count up to that count rounded up to the alignment hold
\* positive infinity.
LsePaddingIsInfinity ==
  hpc = "launched" /\ host.logsumexp_ptr # nullptr =>
    /\ \A b \in DOMAIN unit :
         unit[b].pc = "lse" =>
           \A w \in LseWrites(cfg, unit[b].p, unit[b].mi, unit[b].s_prime) :
             w[1] \in LseRow(host, b[3], b[2])
    /\ AllFinished =>
         \A b \in Batches :
           \A h \in Heads :
             LET n == SeqQueries(host, inp, b)
             IN \A r \in n .. AlignedQueryCount(n) - 1 :
                  g.logsumexp[LseAddr(host, b, h, r)] = <<PInf, One>>

\* a launch with two heads and a query count that is not a multiple of the
\* alignment has finished with the padding slot of the second head written
LsePaddingIsInfinity_witness ==
  /\ AllFinished /\ host.logsumexp_ptr # nullptr
  /\ host.num_heads > 1
  /\ host.num_queries % kAlignLSE # 0
  /\ g.logsumexp[LseAddr(host, 0, 1, host.num_queries)] = <<PInf, One>>

(***************************************************************************)
(* C8                                                                      *)
(***************************************************************************)
\* every pointer and every row, head and batch stride of query, key, value
\* and mask is a multiple of the tensor's alignment
AllAligned(c, p) ==
  /\ Aligned(p.query_ptr, kAlignmentQ(c))
  /\ Aligned(p.key_ptr, kAlignmentK(c))
  /\ Aligned(p.value_ptr, kAlignmentV(c))
  /\ \A st \in {p.q_strideM, p.q_strideH, p.q_strideB} :
       Aligned(st, kAlignmentQ(c))
  /\ \A st \in {p.k_strideM, p.k_strideH, p.k_strideB} :
       Aligned(st, kAlignmentK(c))
  /\ \A st \in {p.v_strideM, p.v_strideH, p.v_strideB} :
       Aligned(st, kAlignmentV(c))
  /\ p.mask_ptr # nullptr =>
       \A st \in {p.mask_ptr, p.mask_strideM, p.mask_strideH,
                  p.mask_strideB} :
         Aligned(st, kAlignmentM(c))

\* C8: check_supported has let the caller go on to the launch only if every
\* pointer and stride of the Params is aligned.
RejectsEveryMisalignment ==
  hpc \in {"ready", "launched"} => AllAligned(cfg, host)

(***************************************************************************)
(* C9                                                                      *)
(***************************************************************************)
\* C9: a block leaves advance_to_block with "no work" exactly when its
\* query tile starts at or past the query count of its batch; that step
\* writes no buffer and the block takes no step after it.
NoWorkExitsAtOnce ==
  [][\A b \in DOMAIN unit :
       /\ unit[b].pc = "start" /\ unit'[b].pc # "start" =>
            /\ unit'[b].pc = "exit"
                 <=> QueryStart(cfg, b) >= SeqQueries(host, inp, b[3])
            /\ unit'[b].pc = "exit" => g' = g
       /\ unit[b].pc = "exit" => unit'[b] = unit[b]]_vars

\* a packed batch has finished in which one block found no work, although
\* its sequence has queries, and another block wrote output
NoWorkExitsAtOnce_witness ==
  /\ AllFinished
  /\ \E b \in DOMAIN unit :
       unit[b].pc = "exit" /\ SeqQueries(host, inp, b[3]) > 0
  /\ \E b \in DOMAIN unit :
       /\ unit[b].pc = "done"
       /\ IsFinite(g.output[OutputAddr(host, inp, b[3], b[2],
                                       QueryStart(cfg, b), 0)])

(***************************************************************************)
(* C10                                                                     *)
(***************************************************************************)
\* the rows [x * kQueriesPerBlock, min((x + 1) * kQueriesPerBlock, n)) of
\* a batch of n queries
TileRows(c, x, n) ==
  {i \in 0 .. n - 1 :
     x * c.kQueriesPerBlock <= i /\ i < (x + 1) * c.kQueriesPerBlock}

\* the rows the block owns by what advance_to_block returns for it
RowsOf(c, p, in, blockIdx) ==
  LET a == advance_to_block(c, p, in.cu_q, in.cu_k, blockIdx)
  IN IF a.ok
       THEN {QueryStart(c, blockIdx) + r :
               r \in 0 .. Min(c.kQueriesPerBlock, a.p.num_queries) - 1}
       ELSE {}

\* C10: in the launched grid, block x owns exactly the rows
\* [x * kQueriesPerBlock, min((x + 1) * kQueriesPerBlock, num_queries)) of
\* its batch, every query row of every (batch, head) is owned by exactly
\* one block, and a block past advance_to_block with work has at least one
\* row left and holds the Params advance_to_block computed.
EveryRowHasOneOwner ==
  hpc = "launched" =>
    /\ \A b \in DOMAIN unit :
         /\ RowsOf(cfg, host, inp, b)
              = TileRows(cfg, b[1], SeqQueries(host, inp, b[3]))
         /\ HasWork(unit[b]) =>
              /\ unit[b].p.num_queries >= 1
              /\ unit[b].p
                   = advance_to_block(cfg, host, inp.cu_q, inp.cu_k, b).p
    /\ \A z \in Batches :
         \A y \in Heads :
           \A i \in 0 .. SeqQueries(host, inp, z) - 1 :
             Cardinality({b \in DOMAIN unit :
                            /\ b[2] = y /\ b[3] = z
                            /\ i \in RowsOf(cfg, host, inp, b)}) = 1

\* two blocks of the same (batch, head) are both past advance_to_block and
\* the last one has fewer rows than a tile
EveryRowHasOneOwner_witness ==
  /\ hpc = "launched"
  /\ \E b1 \in DOMAIN unit :
       \E b2 \in DOMAIN unit :
         /\ b1[1] < b2[1] /\ b1[2] = b2[2] /\ b1[3] = b2[3]
         /\ HasWork(unit[b1]) /\ HasWork(unit[b2])
         /\ unit[b2].p.num_queries < cfg.kQueriesPerBlock

(***************************************************************************)
(* C11                                                                     *)
(***************************************************************************)
\* the number of normalising writes block u has made to address a
FinalWrites(u, a) == IF a \in DOMAIN u.fin THEN u.fin[a] ELSE 0

\* C11: a block with work that has returned has made exactly one normalising
\* write (division by the final s_prime, store to the output buffer) to
\* every output element of every query row it owns, in both output modes
\* and for every key count, zero included; while a keep-in-registers block
\* is inside the key-tile loop it has made none.
EveryElementFinalizedOnce ==
  hpc = "launched" =>
    \A b \in DOMAIN unit :
      /\ unit[b].pc = "done" =>
           \A i \in OwnedRows(cfg, unit[b], b) :
             \A col \in 0 .. host.head_dim_value - 1 :
               LET a == OutputAddr(host, inp, b[3], b[2], i, col)
               IN /\ FinalWrites(unit[b], a) = 1
                  /\ g.output[a] # Uninit
      /\ kKeepOutputInRF(cfg) /\ unit[b].pc \in {"scores", "softmax", "attnv"}
           => unit[b].fin = <<>>

(***************************************************************************)
(* C12                                                                     *)
(***************************************************************************)
\* the query rows of tile blockIdx in its batch
OwnRows(blockIdx) ==
  TileRows(cfg, blockIdx[1], SeqQueries(host, inp, blockIdx[3]))

\* the cells of the caller's tensors that belong to block blockIdx: its
\* query rows, its output rows, its tile of the log-sum-exp row
OwnQuery(blockIdx) ==
  {QueryAddr(host, inp, blockIdx[3], blockIdx[2], i, d) :
     i \in OwnRows(blockIdx), d \in 0 .. host.head_dim - 1}
OwnOutput(blockIdx) ==
  {OutputAddr(host, inp, blockIdx[3], blockIdx[2], i, col) :
     i \in OwnRows(blockIdx), col \in 0 .. host.head_dim_value - 1}
OwnLse(blockIdx) ==
  {LseAddr(host, blockIdx[3], blockIdx[2], QueryStart(cfg, blockIdx) + r) :
     r \in Rows(cfg)}

\* the cells of buffer name that differ between mem1 and mem2
Changed(mem1, mem2, name) ==
  {a \in DOMAIN mem1[name] : mem1[name][a] # mem2[name][a]}

\* a step of block b changes only cells of b
OwnCellsOnly ==
  \A b \in DOMAIN unit :
    unit'[b] # unit[b] =>
      /\ Changed(g, g', "output") \subseteq OwnOutput(b)
      /\ Changed(g, g', "output_accum") \subseteq OwnOutput(b)
      /\ Changed(g, g', "logsumexp") \subseteq OwnLse(b)

\* C12: every step of a block changes only output, accumulation-buffer and
\* log-sum-exp cells of its own rows of its own (batch, head); a block with
\* work reads exactly its own query rows; the cells of two different blocks
\* are disjoint; and the finished launch has left, whatever the order the
\* blocks ran in, what the blocks leave when run one after the other.
UnitsAreIndependent ==
  /\ [][OwnCellsOnly]_vars
  /\ [](hpc = "launched" =>
          /\ \A b \in DOMAIN unit :
               HasWork(unit[b]) => QueryReads(cfg, unit[b].p) = OwnQuery(b)
          /\ \A b1 \in DOMAIN unit :
               \A b2 \in DOMAIN unit \ {b1} :
                 /\ OwnOutput(b1) \cap OwnOutput(b2) = {}
                 /\ OwnLse(b1) \cap OwnLse(b2) = {}
          /\ AllFinished => g = RunKernel(cfg, host, inp, Unwritten(g)))

\* a launch over two batches of two heads has finished and every output cell
\* and every log-sum-exp slot of a row has been written
UnitsAreIndependent_witness ==
  /\ AllFinished
  /\ host.num_batches > 1 /\ host.num_heads > 1
  /\ host.logsumexp_ptr # nullptr
  /\ \A a \in DOMAIN g.output : IsFinite(g.output[a])
  /\ \A b \in DOMAIN unit :
       IsFinite(g.logsumexp[LseAddr(host, b[3], b[2], 0)][1])

(***************************************************************************)
(* C13                                                                     *)
(***************************************************************************)
\* where a warp is in the first key-tile after the barrier at the loop head
\* and before its first read of the softmax state (the atomicMaxFloat)
BeforeFirstRead == {"mm0", "L639", "stage", "mask_sync", "maskadd", "s975"}

\* the warps that hold a part of row r
RowWarps(c, r) ==
  {w \in Warps(c) : \E l \in Lanes : LaneRow(c, w, l) = r}

\* a warp between the loop-head barrier and its first read finds m_prime,
\* s_prime and mi of every row at mp, sp and m; mi only as long as no warp
\* has combined a tile maximum into it
ResetVisible(mp, sp, m) ==
  hpc = "block" =>
    \A w \in DOMAIN warp :
      warp[w].iter_key_start = 0 /\ warp[w].pc \in BeforeFirstRead =>
        \A r \in Rows(cfg) :
          /\ tb.coef[MPrimeAt(cfg, r)] = mp
          /\ tb.coef[SPrimeAt(cfg, r)] = sp
          /\ (\A w2 \in RowWarps(cfg, r) : warp[w2].pc \in BeforeFirstRead)
               => tb.coef[MiAt(cfg, r)] = m

\* C13 (as amended): at entry to the key-tile loop the running softmax state
\* of every one of the kQueriesPerBlock rows has been reset to m_prime =
\* -infinity, s_prime = 0, mi = -infinity, and every warp that has passed the
\* barrier at the loop head sees the reset before its first read
SoftmaxStateResetAtLoopEntry == ResetVisible(NInf, Zero, NInf)

\* C13 (as stated): the state (m_prime, s_prime, mi) every warp sees before
\* its first read is (-infinity, -infinity, 0)
SoftmaxStateResetAsStated == ResetVisible(NInf, NInf, Zero)

\* one warp is at its first atomicMaxFloat while another has not yet
\* finished the score tile
SoftmaxStateResetAtLoopEntry_witness ==
  /\ hpc = "block"
  /\ \E w1, w2 \in DOMAIN warp :
       /\ warp[w1].iter_key_start = 0 /\ warp[w1].pc = "s975"
       /\ warp[w2].pc = "stage"
       /\ tb.coef[MiAt(cfg, 0)] = NInf

(***************************************************************************)
(* C14                                                                     *)
(***************************************************************************)
\* C14: after the softmax update of the first key-tile, for every query row
\* of the block the stored rescale factor (m_prime) is 1, and neither the
\* running sum nor the running maximum nor an exponentiated score of the row
\* is not-a-number, whatever the row's maximum in the tile.
FirstTileRescaleIsOne ==
  hpc = "launched" =>
    \A b \in DOMAIN unit :
      unit[b].pc = "attnv" /\ unit[b].iter_key_start = 0 =>
        \A r \in 0 .. problem_size_0_m(cfg, unit[b].p) - 1 :
          /\ unit[b].m_prime[r] = One
          /\ ~IsNaN(unit[b].s_prime[r])
          /\ ~IsNaN(unit[b].mi[r])
          /\ \A n \in Cols(cfg) : ~IsNaN(unit[b].accum[<<r, n>>])

(***************************************************************************)
(* C15                                                                     *)
(***************************************************************************)
\* the factor iterative_softmax is called with
SoftmaxScaling(c, p) == IF c.kAddMask THEN One ELSE p.scale

\* the logits of row r of score tile frag at the columns below max_col
InRangeLogits(c, frag, r, max_col, scaling) ==
  [k \in 1 .. Max(0, Min(c.kKeysPerBlock, max_col)) |->
     Mul(scaling, frag[<<r, k - 1>>])]

\* every row of the tile has a thread that accumulates its running sum
EveryRowAccumulated(c) == AccumulatedRows(c) = Rows(c)

\* C15: the softmax update of a key-tile takes, for every query row of the
\* block, the row maximum over the previous maximum and the columns below
\* num_keys - iter_key_start only, leaves those columns exponentiated and
\* every other column exactly zero in the tile handed to the second matmul,
\* and adds to the rescaled running sum the exponentials of those columns
\* and nothing else.
OutOfRangeColumnsExcluded ==
  [][\A b \in DOMAIN unit :
       /\ unit[b].pc = "softmax" /\ unit'[b].pc = "attnv"
       /\ EveryRowAccumulated(cfg)
       => LET u == unit[b]
              v == unit'[b]
              max_col == u.p.num_keys - u.iter_key_start
              sc == SoftmaxScaling(cfg, u.p)
          IN \A r \in 0 .. problem_size_0_m(cfg, u.p) - 1 :
               LET lg == InRangeLogits(cfg, u.accum, r, max_col, sc)
               IN /\ v.mi[r] = MaxFrom(u.mi[r], lg, 1)
                  /\ \A n \in Cols(cfg) :
                       v.accum[<<r, n>>]
                         = IF n < max_col THEN Exp(Sub(lg[n + 1], v.mi[r]))
                           ELSE Zero
                  /\ v.s_prime[r]
                       = SumFrom(Mul(u.s_prime[r], v.m_prime[r]),
                                 [k \in 1 .. Len(lg) |->
                                    v.accum[<<r, k - 1>>]], 1)]_vars

RefMax(p, in, b, h, i, n) == MaxFrom(NInf, RefScores(p, in, b, h, i, n), 1)

\* the sum over the keys 0 .. n - 1 of exp(logit - maximum)
RefSum(p, in, b, h, i, n) ==
  LET sc == RefScores(p, in, b, h, i, n)
      mx == MaxFrom(NInf, sc, 1)
  IN SumFrom(Zero, [k \in 1 .. n |-> Exp(Sub(sc[k], mx))], 1)

\* C17: without mask and causal flag, for every scale (positive, zero or
\* negative), after the softmax update of a key-tile every query row of the
\* block has as mi the maximum of its logits over all keys of the tiles so
\* far and as s_prime the sum over those keys of exp(logit - mi), and from
\* the second tile on the factor stored by the update is
\* exp(previous mi - mi), the previous mi being the maximum over the earlier
\* tiles (so that mi has not decreased).
RunningMaxAndSumAreExact ==
  hpc = "launched" /\ ~cfg.kAddMask /\ ~host.causal
    /\ EveryRowAccumulated(cfg) =>
    \A b \in DOMAIN unit :
      unit[b].pc = "attnv" =>
        LET u == unit[b]
            seen == Min(u.p.num_keys, u.iter_key_start + cfg.kKeysPerBlock)
        IN \A r \in 0 .. problem_size_0_m(cfg, u.p) - 1 :
             LET i == QueryStart(cfg, b) + r
                 mx == RefMax(host, inp, b[3], b[2], i, seen)
                 before == RefMax(host, inp, b[3], b[2], i,
                                  u.iter_key_start)
             IN /\ u.mi[r] = mx
                /\ u.s_prime[r] = RefSum(host, inp, b[3], b[2], i, seen)
                /\ ~Less(mx, before)
                /\ u.iter_key_start > 0 =>
                     u.m_prime[r] = Exp(Sub(before, mx))

(***************************************************************************)
(* C18                                                                     *)
(***************************************************************************)
\* C18: within a block no shared-memory location (a word of mi, m_prime,
\* s_prime or addition_storage, or one of the aliased regions mm0, mask, si,
\* mm1 and the epilogue buffer) is written by one thread and read or written
\* by another thread without a barrier between the two accesses
NoSharedMemoryRace ==
  hpc = "block" =>
    \A a, b \in accesses : ~Conflict(cfg, a, b)

(***************************************************************************)
(* C19                                                                     *)
(***************************************************************************)
\* equal as numbers: -0.0 and 0.0 are the same number
SameNumber(a, b) == a = b \/ (IsZero(a) /\ IsZero(b))

\* the values the lanes holding row r handed to atomicMaxFloat in the
\* current key-tile, one per warp column
Contributions(r) ==
  [i \in 1 .. WarpCountN(cfg) |-> tb.contrib[<<r, i - 1>>]]

\* C19: in every interleaving, once all lanes holding a row have performed
\* their atomicMaxFloat and passed the barrier after it, mi[row] is the
\* maximum of its previous value and of all contributed values, whatever
\* mix of positive, negative, zero and infinite numbers they are
AtomicMaxIsRowMax ==
  (hpc = "block" /\ \A w \in DOMAIN warp : warp[w].pc = "s996") =>
    \A r \in Rows(cfg) :
      (\A i \in 1 .. WarpCountN(cfg) : ~IsNaN(Contributions(r)[i])) =>
        SameNumber(tb.coef[MiAt(cfg, r)],
                   MaxFrom(tb.mi_before[r], Contributions(r), 1))

(***************************************************************************)
(* C20                                                                     *)
(***************************************************************************)
AllWarpsDone ==
  hpc = "block" /\ \A w \in DOMAIN warp : warp[w].pc = "done"

\* the warps of the block pass every barrier together: they have been
\* released from each barrier the same number of times, two warps never wait
\* at different barriers, and when the block has finished the barrier at the
\* loop head has been passed once per key-tile
BarriersUniform ==
  hpc = "block" =>
    /\ \A w1, w2 \in DOMAIN warp :
         /\ warp[w1].bars = warp[w2].bars
         /\ (warp[w1].pc \in BarrierLabels /\ warp[w2].pc \in BarrierLabels)
              => warp[w1].pc = warp[w2].pc
         /\ warp[w1].pc \in BarrierLabels => warp[w2].pc # "done"
    /\ AllWarpsDone =>
         \A w \in DOMAIN warp :
           /\ warp[w].bars["L585"]
                = ceil_div(Max(tb.p.num_keys, 0), cfg.kKeysPerBlock)
           /\ warp[w].bars["L867"] = warp[w].bars["L585"]
           /\ warp[w].iter_key_start >= tb.p.num_keys

RowUpdatesByOwnThread ==
  hpc = "block" =>
    /\ \A w \in DOMAIN warp :
         warp[w].pc \in {"s964", "s996"} =>
           \A l \in Lanes : ToInt8(thread_id(w, l)) = thread_id(w, l)
    /\ (\E w \in DOMAIN warp : warp[w].pc \in {"L966", "L1001"}) =>
         \A a \in accesses :
           a.region = "coef" /\ a.kind = "w" =>
             /\ a.thread < cfg.kQueriesPerBlock
             /\ a.cell \in {MPrimeAt(cfg, a.thread), SPrimeAt(cfg, a.thread)}

(***************************************************************************)
(* C22                                                                     *)
(***************************************************************************)
\* the threads <<warp_id, lane_id>> whose index
\* warp_id * kLinesPerWarp + lane_id is row r
Accumulators(c, r) ==
  {x \in Warps(c) \X {l \in Lanes : l < kLinesPerWarp(c)} :
     x[1] * kLinesPerWarp(c) + x[2] = r}

\* the sum of row r of the exponentiated tile frag over warp column wn
WarpColumnSum(frag, r, wn) ==
  SumFrom(Zero,
          [k \in 1 .. kWarpSize |-> frag[<<r, wn * kWarpSize + k - 1>>]], 1)

\* C22: in every key-tile and for every admitted pair of tile sizes, each of
\* the kQueriesPerBlock rows has exactly one thread whose index
\* warp_id * kLinesPerWarp + lane_id is the row, and the softmax update
\* leaves in s_prime the rescaled running sum plus the partial sums of all
\* warp columns of the row
RowSumAddedOnce ==
  [][\A b \in DOMAIN unit :
       unit[b].pc = "softmax" /\ unit'[b].pc = "attnv"
       => LET u == unit[b]
              v == unit'[b]
          IN \A r \in Rows(cfg) :
               /\ Cardinality(Accumulators(cfg, r)) = 1
               /\ v.s_prime[r]
                    = SumFrom(Mul(u.s_prime[r], v.m_prime[r]),
                              [i \in 1 .. WarpCountN(cfg) |->
                                 WarpColumnSum(v.accum, r, i - 1)], 1)]_vars

(***************************************************************************)
(* C23                                                                     *)
(***************************************************************************)
\* the keys of query i of batch b, head h that the causal mask leaves in
\* range and whose logit is finite
FiniteLogitKeys(p, in, b, h, i) ==
  {j \in 0 .. SeqKeys(p, in, b) - 1 :
     (~p.causal \/ j <= i) /\ IsFinite(RefLogit(p, in, b, h, i, j))}

\* C23: when the normalising epilogue divides by s_prime for a query row
\* below the query count that has at least one in-range key with a finite
\* logit, that s_prime is at least 1 (the key attaining the running maximum
\* contributes exp(0) = 1), whatever the sequence of key-tiles; the division
\* is not by zero
DivisorAtLeastOne ==
  hpc = "launched" =>
    \A b \in DOMAIN unit :
      unit[b].pc \in {"lse", "done"} /\ EpilogueRan(cfg, unit[b]) =>
        \A i \in OwnedRows(cfg, unit[b], b) :
          LET s == unit[b].norm.s_prime[i - QueryStart(cfg, b)]
          IN FiniteLogitKeys(host, inp, b[3], b[2], i) # {} =>
               ~IsNaN(s) /\ ~IsZero(s) /\ ~Less(s, One)

====
